---- MODULE Spec2Model ----
(***************************************************************************)
(* Planning-poker server: the real-time hubs (internal/services/           *)
(* websocket.go, internal/services/sse.go) and the session handlers        *)
(* (internal/handlers/voting.go, ticket handlers), as state machines.      *)
(*                                                                         *)
(* SpecHub     one hub instance (WSService or SSEService, chosen in Init)  *)
(*             with its connections, callers and the hub goroutine.        *)
(* SpecSession the request handlers of one session running concurrently    *)
(*             against the database, and the events they broadcast.        *)
(* SpecSerial  the same handlers with one request at a time.               *)
(* SpecHistory SpecSession with the record of the calls of the run.        *)
(* SpecConnect users joining, leaving, deleting and connecting to a         *)
(*             session through Handler.SSEHandler, and the registration    *)
(*             of their connections.                                       *)
(***************************************************************************)
EXTENDS Integers, Sequences, FiniteSets, TLC

\* ------------------------------------------------------------------ bounds
\* Capacity of a connection's outbound channel. The services use 256
\* (websocket.go:101) and 10 (sse.go:42); the model scales both down, to a
\* buffer that holds more than one message.
QueueCap == 2
\* The connection objects of one run: two, so that two connections of one
\* user and session, of two users, and of two sessions all occur.
ConnPool == {1, 2}
\* Number of Broadcast / SendToUser calls in one run: one more than the
\* buffer holds, so that a call finds a buffer full.
MaxCalls == 3

Sessions == {"s1", "s2"}
Users    == {"u1", "u2"}
\* The session and the user the Broadcast / SendToUser calls of a run address;
\* connections are made for every session and user.
CallSessions == {"s1"}
CallUsers    == {"u1"}
\* Goroutines that call Broadcast / SendToUser (request handlers).
Callers  == {"g1"}
Hub      == "hub"
Iters    == Callers \cup {Hub}

VARIABLES
  svc,      \* "ws": the run exercises WSService; "sse": SSEService
  clients,  \* the registry map  ws.clients / s.clients : key -> connection
  conns,    \* connection objects ever created: Seq of [sess, user, key]
  queue,    \* per connection, the buffered channel Send / Channel
  closed,   \* connections whose channel has been closed
  rp,       \* per connection: readPump (ws) / HandleSSE (sse) position
  wp,       \* per connection: writePump position (ws)
  it,       \* per goroutine in Iters: its position in Broadcast / SendToUser / Run
  ncalls,   \* number of Broadcast / SendToUser calls made so far
  pushed,   \* per connection, every message ever sent on its channel, in order
  fault,    \* "none", or the runtime panic / fatal error that ended the process
  dbSessions, \* table sessions: id -> [owner, cur, voting]
  dbTickets,  \* table tickets: id -> [sess, pos, title]
  dbVotes,    \* table votes: rows [tid, user, value]
  ticketSeq,  \* the largest ticket id handed out (AUTOINCREMENT)
  req,        \* per request slot: the handler running in it and its locals
  nreq,       \* number of requests received so far
  events,     \* the Broadcast calls of the handlers, in order
  calls,      \* the requests of a run of SpecHistory, in arrival order
  db0,        \* the tables as they were before the first request
  dbParticipants, \* table participants: rows <<session_id, user_id>>
  refused,    \* connection requests answered with an error: [sess, user, code]
  connecting  \* connection requests whose handler is inside GetSessionByID or
              \* has read the session and not acted on it yet:
              \* [sess, user, found, part, pc]

hubVars  == <<svc, clients, conns, queue, closed, rp, wp, it, ncalls, pushed, fault>>
connVars == <<dbParticipants, refused, connecting>>
reqVars  == <<dbSessions, dbTickets, dbVotes, ticketSeq, req, nreq, events, calls, db0>>
sessVars == <<reqVars, connVars>>
vars == <<hubVars, sessVars>>

\* ------------------------------------------------------------- helpers
ConnIds == 1..Len(conns)

Idle == [pc |-> "idle", kind |-> "none", sess |-> "-", user |-> "-", eid |-> 0,
         ret |-> FALSE, todo |-> {}, cur |-> {}, full |-> {}]

\* Variant: a clientID that differs from connection to connection.
WSClientIDPerConn(s, u, n) == <<s, u, n>>

\* HandleWebSocket: clientID := sessionID + "_" + userID
WSClientID(s, u, n) == <<s, u, 0>>

\* AddClient: clientID := sessionID_userID_time.Now().UnixNano(); the clock is
\* read under the write lock and is taken to advance between two calls.
SSEClientID(s, u, n) == <<s, u, n>>

Registered == {clients[k] : k \in DOMAIN clients}

\* The goroutines inside a read-locked range over the map.
Readers == {i \in Iters : it[i].pc = "range"}

MapDelete(m, k) == [x \in (DOMAIN m) \ {k} |-> m[x]]
MapPut(m, k, v) == [x \in (DOMAIN m) \cup {k} |-> IF x = k THEN v ELSE m[x]]

Key(c)  == conns[c].key

\* Variant: a hub that takes its next message at any time.
HubAlwaysReady == TRUE

\* The hub goroutine is at the select of its for loop.
HubAtSelect == it[Hub].pc = "idle"

\* Variant: the comparison of the session id left out.
MatchesUserOnly(i, c) == it[i].kind = "user" => conns[c].user = it[i].user

\* Variant: the comparison of the user id left out.
MatchesSessionOnly(i, c) == conns[c].sess = it[i].sess

\* if client.SessionID == sessionID [&& client.UserID == userID]
Matches(i, c) ==
  /\ conns[c].sess = it[i].sess
  /\ (it[i].kind = "user" => conns[c].user = it[i].user)

\* A goroutine entering its range over the map for call e; ret tells whether
\* the call has already returned to its caller.
RangeStart(kind, s, u, e, ret) ==
  [pc |-> "range", kind |-> kind, sess |-> s, user |-> u, eid |-> e,
   ret |-> ret, todo |-> DOMAIN clients, cur |-> {}, full |-> {}]

\* The message of call e as it travels through the channels.
Msg(kind, e) == [id |-> e, kind |-> kind]

\* ------------------------------------------------------ connection set-up
\* HandleWebSocket: build the client and block on ws.register <- client.
HandleWebSocket(s, u) ==
  /\ svc = "ws" /\ fault = "none"
  /\ Len(conns) < Cardinality(ConnPool)
  /\ conns' = Append(conns, [sess |-> s, user |-> u,
                             key |-> WSClientID(s, u, Len(conns) + 1)])
  /\ queue' = Append(queue, <<>>)
  /\ pushed' = Append(pushed, <<>>)
  /\ rp' = Append(rp, "wait")
  /\ wp' = Append(wp, "idle")
  /\ UNCHANGED <<svc, clients, closed, it, ncalls, fault>>

\* A call of HandleWebSocket, whoever makes it.
WSConnect(s, u) == HandleWebSocket(s, u) /\ UNCHANGED sessVars

\* Run, case client := <-ws.register: the receive of the hub goroutine lets
\* the send of HandleWebSocket complete; HandleWebSocket then starts
\* writePump, whose first write (the "connected" message) may fail and end
\* it, and readPump, and returns. The hub has the client in hand and has
\* still to take ws.mutex.Lock.
WSRegisterReceive(c) ==
  /\ svc = "ws" /\ fault = "none"
  /\ rp[c] = "wait"
  /\ HubAtSelect
  /\ it' = [it EXCEPT ![Hub] = [Idle EXCEPT !.pc = "register", !.cur = {c}]]
  /\ rp' = [rp EXCEPT ![c] = "run"]
  /\ \E w \in {"run", "done"} : wp' = [wp EXCEPT ![c] = w]
  /\ UNCHANGED <<sessVars, svc, clients, conns, queue, closed, ncalls, pushed, fault>>

\* Run, register case under ws.mutex.Lock, which waits for the goroutines
\* that hold the read lock: ws.clients[client.ID] = client; the hub goes back
\* to its select.
WSRegister(c) ==
  /\ svc = "ws" /\ fault = "none"
  /\ it[Hub].pc = "register" /\ it[Hub].cur = {c}
  /\ Readers = {}
  /\ clients' = MapPut(clients, Key(c), c)
  /\ it' = [it EXCEPT ![Hub] = Idle]
  /\ UNCHANGED <<sessVars, svc, conns, queue, closed, rp, wp, ncalls, pushed, fault>>

\* readPump: ReadMessage fails (peer gone, or the connection was closed);
\* the deferred function blocks on ws.unregister <- client.
WSReadPump(c) ==
  /\ svc = "ws" /\ fault = "none"
  /\ rp[c] = "run"
  /\ rp' = [rp EXCEPT ![c] = "unreg"]
  /\ UNCHANGED <<sessVars, svc, clients, conns, queue, closed, wp, it, ncalls, pushed, fault>>

\* Run, case client := <-ws.unregister: the receive of the hub goroutine
\* lets the send of readPump's deferred function complete, which closes the
\* socket and returns. The hub has still to take ws.mutex.Lock.
WSUnregisterReceive(c) ==
  /\ svc = "ws" /\ fault = "none"
  /\ rp[c] = "unreg"
  /\ HubAtSelect
  /\ it' = [it EXCEPT ![Hub] = [Idle EXCEPT !.pc = "unregister", !.cur = {c}]]
  /\ rp' = [rp EXCEPT ![c] = "done"]
  /\ UNCHANGED <<sessVars, svc, clients, conns, queue, closed, wp, ncalls, pushed, fault>>

\* Run, unregister case under ws.mutex.Lock, which waits for the goroutines
\* that hold the read lock: the entry under client.ID is deleted when there
\* is one, and client.Send is closed; the hub goes back to its select.
WSUnregister(c) ==
  /\ svc = "ws" /\ fault = "none"
  /\ it[Hub].pc = "unregister" /\ it[Hub].cur = {c}
  /\ Readers = {}
  /\ it' = [it EXCEPT ![Hub] = Idle]
  /\ IF Key(c) \in DOMAIN clients
       THEN /\ clients' = MapDelete(clients, Key(c))
            /\ IF c \in closed
                 THEN fault' = "close of closed channel" /\ closed' = closed
                 ELSE fault' = fault /\ closed' = closed \cup {c}
       ELSE UNCHANGED <<clients, closed, fault>>
  /\ UNCHANGED <<sessVars, svc, conns, queue, rp, wp, ncalls, pushed>>

\* writePump: one turn of the loop: a message is taken from client.Send and
\* written (a failed write ends the pump), or the channel is found closed.
WSWritePump(c) ==
  /\ svc = "ws" /\ fault = "none"
  /\ wp[c] = "run"
  /\ \/ /\ queue[c] # <<>>
        /\ queue' = [queue EXCEPT ![c] = Tail(queue[c])]
        /\ \E w \in {"run", "done"} : wp' = [wp EXCEPT ![c] = w]
     \/ /\ queue[c] = <<>> /\ c \in closed
        /\ wp' = [wp EXCEPT ![c] = "done"]
        /\ queue' = queue
  /\ UNCHANGED <<sessVars, svc, clients, conns, closed, rp, it, ncalls, pushed, fault>>

\* AddClient (under s.mutex.Lock).
AddClient(s, u) ==
  /\ svc = "sse" /\ fault = "none"
  /\ Len(conns) < Cardinality(ConnPool)
  /\ Readers = {}
  /\ LET k == SSEClientID(s, u, Len(conns) + 1) IN
       /\ conns' = Append(conns, [sess |-> s, user |-> u, key |-> k])
       /\ clients' = MapPut(clients, k, Len(conns) + 1)
  /\ queue' = Append(queue, <<>>)
  /\ pushed' = Append(pushed, <<>>)
  /\ rp' = Append(rp, "start")
  /\ wp' = Append(wp, "idle")
  /\ UNCHANGED <<svc, closed, it, ncalls, fault>>

\* A call of AddClient, whoever makes it.
SSEAddClient(s, u) == AddClient(s, u) /\ UNCHANGED sessVars

\* RemoveClient(clientID) (under s.mutex.Lock): closes the channel of the
\* entry and deletes it; nothing happens when there is no entry.
RemoveClient(k) ==
  IF k \in DOMAIN clients
    THEN /\ clients' = MapDelete(clients, k)
         /\ IF clients[k] \in closed
              THEN fault' = "close of closed channel" /\ closed' = closed
              ELSE fault' = fault /\ closed' = closed \cup {clients[k]}
    ELSE UNCHANGED <<clients, closed, fault>>

\* HandleSSE up to its loop: when the ResponseWriter is no http.Flusher the
\* handler answers "Streaming unsupported" and returns; the RemoveClient is
\* deferred only after that test.
SSEHandleStart(c) ==
  /\ svc = "sse" /\ fault = "none"
  /\ rp[c] = "start"
  /\ \/ rp' = [rp EXCEPT ![c] = "run"]
     \/ rp' = [rp EXCEPT ![c] = "nostream"]
  /\ UNCHANGED <<sessVars, svc, clients, conns, queue, closed, wp, it, ncalls, pushed, fault>>

\* HandleSSE: one turn of the loop: a message is taken from client.Channel
\* and written, or ctx.Done() makes the handler return, which runs the
\* deferred RemoveClient(client.ID).
SSEHandle(c) ==
  /\ svc = "sse" /\ fault = "none"
  /\ rp[c] = "run"
  /\ \/ /\ queue[c] # <<>>
        /\ queue' = [queue EXCEPT ![c] = Tail(queue[c])]
        /\ rp' = rp
     \/ /\ rp' = [rp EXCEPT ![c] = "unreg"]
        /\ queue' = queue
  /\ UNCHANGED <<sessVars, svc, clients, conns, closed, wp, it, ncalls, pushed, fault>>

\* The deferred RemoveClient of HandleSSE, once it has the write lock.
SSEHandleExit(c) ==
  /\ svc = "sse" /\ fault = "none"
  /\ rp[c] = "unreg"
  /\ Readers = {}
  /\ RemoveClient(Key(c))
  /\ rp' = [rp EXCEPT ![c] = "done"]
  /\ UNCHANGED <<sessVars, svc, conns, queue, wp, it, ncalls, pushed>>

\* A further RemoveClient for a connection whose handler has already removed
\* it (a duplicate disconnect).
SSERemoveAgain(c) ==
  /\ svc = "sse" /\ fault = "none"
  /\ rp[c] = "done"
  /\ Readers = {}
  /\ RemoveClient(Key(c))
  /\ rp' = [rp EXCEPT ![c] = "gone"]
  /\ UNCHANGED <<sessVars, svc, conns, queue, wp, it, ncalls, pushed>>

\* ------------------------------------------------------------ the calls
\* Broadcast(sessionID, message). WSService: the caller blocks on the
\* unbuffered ws.broadcast channel. SSEService: the caller takes the read
\* lock and ranges over the map itself.
Broadcast(g, s) ==
  /\ fault = "none"
  /\ it[g].pc = "idle"
  /\ ncalls < MaxCalls
  /\ ncalls' = ncalls + 1
  /\ it' = [it EXCEPT ![g] =
              IF svc = "ws"
                THEN [Idle EXCEPT !.pc = "send", !.kind = "bcast", !.sess = s,
                                  !.eid = ncalls + 1]
                ELSE RangeStart("bcast", s, "-", ncalls + 1, FALSE)]
  /\ UNCHANGED <<sessVars, svc, clients, conns, queue, closed, rp, wp, pushed, fault>>

\* Run, case message := <-ws.broadcast: the send of the caller completes
\* (Broadcast returns) and the hub starts its range under ws.mutex.RLock.
WSHubReceive(g) ==
  /\ svc = "ws" /\ fault = "none"
  /\ it[g].pc = "send"
  /\ HubAtSelect
  /\ it' = [it EXCEPT ![Hub] = RangeStart("bcast", it[g].sess, "-", it[g].eid, TRUE),
                      ![g] = Idle]
  /\ UNCHANGED <<sessVars, svc, clients, conns, queue, closed, rp, wp, ncalls, pushed, fault>>

\* SendToUser(sessionID, userID, message): in both services the caller takes
\* the read lock and ranges over the map itself.
SendToUser(g, s, u) ==
  /\ fault = "none"
  /\ it[g].pc = "idle"
  /\ ncalls < MaxCalls
  /\ ncalls' = ncalls + 1
  /\ it' = [it EXCEPT ![g] = RangeStart("user", s, u, ncalls + 1, FALSE)]
  /\ UNCHANGED <<sessVars, svc, clients, conns, queue, closed, rp, wp, pushed, fault>>

\* for _, client := range clients { if client.SessionID == ... : the range
\* produces the next entry (in no particular order); an entry deleted before
\* it is reached is not produced.
RangeNext(i) ==
  /\ fault = "none"
  /\ it[i].pc = "range" /\ it[i].cur = {}
  /\ \E k \in it[i].todo :
       it' = [it EXCEPT ![i].todo = @ \ {k},
                        ![i].cur = IF k \in DOMAIN clients /\ Matches(i, clients[k])
                                     THEN {clients[k]} ELSE {}]
  /\ UNCHANGED <<sessVars, svc, clients, conns, queue, closed, rp, wp, ncalls, pushed, fault>>

\* The send case of the select statement can proceed: the buffer has room.
CanSend(c) == Len(queue[c]) < QueueCap

\* Variant: a channel that hands out the latest message first.
EnqueueFront(q, m) == <<m>> \o q

\* What a send on the channel does to its buffer: the message goes behind
\* the messages the buffer holds (the receiver takes the first).
Enqueue(q, m) == Append(q, m)

\* Variant: a select statement without a second branch, which waits for room.
OnFullBlocks(i, c) == FALSE

\* The other branch of the select statement, taken when the buffer is full.
\* WSService, default: delete(ws.clients, client.ID); close(client.Send);
\* the map is written under the read lock, and with another goroutine inside
\* its own range the Go runtime may end the process; a goroutine whose own
\* select on the same connection takes the default branch at the same moment
\* closes the channel a second time.
\* SSEService, case <-time.After(100ms): the message is skipped.
OnFull(i, c) ==
  IF svc = "ws"
    THEN /\ clients' = MapDelete(clients, Key(c))
         /\ closed' = closed \cup {c}
         /\ \/ fault' = fault
            \/ /\ Readers \ {i} # {}
               /\ fault' = "concurrent map iteration and map write"
            \/ /\ \E j \in Readers \ {i} : c \in it[j].cur
               /\ fault' = "close of closed channel"
    ELSE UNCHANGED <<clients, closed, fault>>

\* The loop body on the connection the range produced: the select statement.
\* A send on a closed channel panics. it[i].full records the connections
\* this call found full.
Select(i) ==
  /\ fault = "none"
  /\ it[i].pc = "range"
  /\ \E c \in it[i].cur :
     LET m == Msg(it[i].kind, it[i].eid) IN
       IF c \in closed
         THEN /\ fault' = "send on closed channel"
              /\ UNCHANGED <<queue, pushed, clients, closed, it>>
         ELSE IF CanSend(c)
           THEN /\ queue' = [queue EXCEPT ![c] = Enqueue(@, m)]
                /\ pushed' = [pushed EXCEPT ![c] = Append(@, m)]
                /\ it' = [it EXCEPT ![i].cur = {}]
                /\ UNCHANGED <<clients, closed, fault>>
           ELSE /\ it' = [it EXCEPT ![i].cur = {}, ![i].full = @ \cup {c}]
                /\ UNCHANGED <<queue, pushed>>
                /\ OnFull(i, c)
  /\ UNCHANGED <<sessVars, svc, conns, rp, wp, ncalls>>

\* The range is over: the read lock is released and the call returns to its
\* caller (the hub goroutine logs the broadcast and goes back to its select).
RangeDone(i) ==
  /\ fault = "none"
  /\ it[i].pc = "range" /\ it[i].cur = {} /\ it[i].todo = {}
  /\ it' = [it EXCEPT ![i] = Idle]
  /\ UNCHANGED <<sessVars, svc, clients, conns, queue, closed, rp, wp, ncalls, pushed, fault>>

\* --------------------------------------------------------- specification
\* A hub without connections and calls.
HubStart ==
  /\ clients = <<>>
  /\ conns = <<>>
  /\ queue = <<>>
  /\ pushed = <<>>
  /\ closed = {}
  /\ rp = <<>>
  /\ wp = <<>>
  /\ it = [i \in Iters |-> Idle]
  /\ ncalls = 0
  /\ fault = "none"

\* No session, ticket or vote, and no request.
NoRequests ==
  /\ dbSessions = <<>>
  /\ dbTickets = <<>>
  /\ dbVotes = {}
  /\ ticketSeq = 0
  /\ req = <<>>
  /\ nreq = 0
  /\ events = <<>>
  /\ calls = <<>>
  /\ db0 = [sessions |-> dbSessions, tickets |-> dbTickets, votes |-> dbVotes]
  /\ dbParticipants = {}
  /\ refused = {}
  /\ connecting = {}

InitHub ==
  /\ svc \in {"ws", "sse"}
  /\ HubStart
  /\ NoRequests

NextHub ==
  \/ \E s \in Sessions, u \in Users : WSConnect(s, u)
  \/ \E c \in ConnIds : WSRegisterReceive(c)
  \/ \E c \in ConnIds : WSRegister(c)
  \/ \E c \in ConnIds : WSReadPump(c)
  \/ \E c \in ConnIds : WSUnregisterReceive(c)
  \/ \E c \in ConnIds : WSUnregister(c)
  \/ \E c \in ConnIds : WSWritePump(c)
  \/ \E s \in Sessions, u \in Users : SSEAddClient(s, u)
  \/ \E c \in ConnIds : SSEHandleStart(c)
  \/ \E c \in ConnIds : SSEHandle(c)
  \/ \E c \in ConnIds : SSEHandleExit(c)
  \/ \E c \in ConnIds : SSERemoveAgain(c)
  \/ \E g \in Callers, s \in CallSessions : Broadcast(g, s)
  \/ \E g \in Callers : WSHubReceive(g)
  \/ \E g \in Callers, s \in CallSessions, u \in CallUsers : SendToUser(g, s, u)
  \/ \E i \in Iters : RangeNext(i)
  \/ \E i \in Iters : Select(i)
  \/ \E i \in Iters : RangeDone(i)

SpecHub == InitHub /\ [][NextHub]_vars

\* ================================================================ handlers
\* Largest ticket id of a run (ids come from AUTOINCREMENT and are not reused).
MaxTickets == 3
\* Number of requests of a run.
MaxReqs == 2
\* Number of requests of a run in which each request waits for the answer to
\* the one before it.
MaxSerial == 4
\* Requests in flight at one time: two handler goroutines.
ReqSlots == {1, 2}
\* The session the requests of a run address, owned by u1; s2 is owned by u2.
ReqSessions == {"s1"}
TicketArgs == 1..MaxTickets
\* The form value "vote": two cards of the deck, and a card that models.go
\* lists (FibonacciCards) and utils.ValidateVoteValue does not.
VoteArgs == {"5", "8", "55"}
\* The handlers that compare the caller with session.OwnerID.
OwnerOps == {"StartVoting", "EndVoting", "NextTicket", "SelectTicket",
             "CreateTicket", "DeleteTicket", "UpdateTicket", "DeleteSession",
             "ReviewSession"}

\* utils.ValidateVoteValue: validVotes. Its tenth literal is not the cup
\* sign of models.SpecialCards (bytes e2 98 95, here "coffee") but the seven
\* bytes c3 a2 cb 9c e2 80 a2, here "coffee-misencoded".
validVotes == {"0", "1", "2", "3", "5", "8", "13", "21", "34", "coffee-misencoded", "?"}
\* models.AllVotingCards: FibonacciCards followed by SpecialCards.
AllVotingCards == {"0", "1", "2", "3", "5", "8", "13", "21", "34", "55", "89", "144",
                   "coffee", "?"}

\* A session as a handler holds it: the row, Tickets (ids in position order)
\* with the Votes loaded for each (tvotes, in the same order), and
\* CurrentTicket (current), a pointer into Tickets or nil.
NoSession == [owner |-> "-", cur |-> {}, voting |-> FALSE, tickets |-> <<>>,
              tvotes |-> <<>>, current |-> {}]
NoTicket  == [id |-> 0, sess |-> "-", pos |-> 0, title |-> "-"]
\* A slot without a request.
Blank == [id |-> 0, op |-> "none", user |-> "-", sess |-> "-", tid |-> 0, vote |-> "-",
          pc |-> "idle", status |-> 0, conc |-> FALSE, todo |-> <<>>,
          evt |-> "-", session |-> NoSession, ticket |-> NoTicket, votes |-> {},
          tvotes |-> {}, hx |-> FALSE]

\* The request in slot r has arrived and has not been answered.
InFlight(r) == req[r].pc \notin {"idle", "done"}

\* The id behind a pointer that may be nil (0 stands for nil in an event).
IdOf(S) == IF S = {} THEN 0 ELSE CHOOSE t \in S : TRUE

TicketsOf(sid) == {t \in DOMAIN dbTickets : dbTickets[t].sess = sid}

\* SELECT ... FROM tickets WHERE session_id = ? ORDER BY position
\* (rows of equal position in id order).
RECURSIVE OrderByPosition(_)
OrderByPosition(T) ==
  IF T = {} THEN <<>>
  ELSE LET t == CHOOSE x \in T : \A y \in T :
                  \/ dbTickets[x].pos < dbTickets[y].pos
                  \/ dbTickets[x].pos = dbTickets[y].pos /\ x <= y
       IN <<t>> \o OrderByPosition(T \ {t})

\* Variant: the SELECT without WHERE ticket_id = ?.
VotesOfAnyTicket(t) == {[user |-> v.user, value |-> v.value] : v \in dbVotes}

\* SELECT ... FROM votes WHERE ticket_id = ?: user and value of the rows of
\* the ticket.
VotesOf(t) == {[user |-> v.user, value |-> v.value] : v \in {x \in dbVotes : x.tid = t}}

\* SessionService.GetSessionByID when no other statement runs between its
\* own: the row, its tickets in position order with their votes, and
\* CurrentTicket, which is set only when current_ticket_id is among them; nil
\* (NoSession) when there is no row. The handlers below run it statement by
\* statement (GetSessionRow to GetCurrentTicketVotes).
GetSessionByID(sid) ==
  IF sid \notin DOMAIN dbSessions THEN NoSession
  ELSE LET row == dbSessions[sid]
           ts  == OrderByPosition(TicketsOf(sid))
       IN [owner |-> row.owner, cur |-> row.cur, voting |-> row.voting, tickets |-> ts,
           tvotes |-> [i \in 1..Len(ts) |-> VotesOf(ts[i])],
           current |-> row.cur \cap {ts[i] : i \in 1..Len(ts)}]

\* ticket.Votes of ticket t of session.Tickets (nothing for a nil pointer).
TicketVotes(session, t) ==
  UNION {session.tvotes[i] : i \in {j \in 1..Len(session.tvotes) : session.tickets[j] = t}}

\* Variant: a handler without the comparison of caller and owner.
AnyCaller(session, user) == TRUE

\* session.OwnerID != user.ID is the rejecting test; this is its negation.
IsOwner(session, user) == session.owner = user

\* http.Error(w, ..., code) followed by return, or the final response.
Reply(r, code) ==
  req' = [req EXCEPT ![r] = [@ EXCEPT !.pc = "done", !.status = code, !.todo = <<>>,
                                      !.session = NoSession, !.ticket = NoTicket]]

\* The Votes field of the ticket object that is (in) Data of the event evt:
\* voting-started and voting-ended hand over session.CurrentTicket,
\* ticket-changed a ticket of session.Tickets (or nil), each with the votes
\* that GetSessionByID loaded at the entry of the handler; the ticket of
\* ticket-created, ticket-updated and ticket-deleted was not read with votes.
DataTicketVotes(session, tid, evt) ==
  IF evt \in {"voting-started", "voting-ended"}
    THEN TicketVotes(session, IdOf(session.current))
  ELSE IF evt = "ticket-changed" THEN TicketVotes(session, tid)
  ELSE {}

\* The handler goes on with the storage calls in todo; tvotes is the Votes of
\* the ticket object it will hand to Broadcast.
Continue(r, session, tid, todo, evt) ==
  req' = [req EXCEPT ![r] = [@ EXCEPT !.pc = "run", !.session = session, !.tid = tid,
                                      !.todo = todo, !.evt = evt,
                                      !.tvotes = DataTicketVotes(session, tid, evt)]]

\* A request arrives; SessionMiddleware has resolved the caller. hx: the
\* request carries the header HX-Request. conc records that the request and
\* the one in the other slot are in flight together.
Arrive(r, op, s, u, t, v, hx) ==
  /\ ~ InFlight(r)
  /\ op = "CreateTicket" =>
       ticketSeq + Cardinality({x \in ReqSlots : InFlight(x) /\ req[x].op = op}) < MaxTickets
  /\ nreq' = nreq + 1
  /\ LET busy == {x \in ReqSlots \ {r} : InFlight(x)} IN
       req' = [x \in ReqSlots |->
                 IF x = r THEN [Blank EXCEPT !.id = nreq + 1, !.op = op, !.user = u, !.sess = s,
                                             !.tid = t, !.vote = v, !.pc = "get",
                                             !.hx = hx, !.conc = (busy # {})]
                 ELSE IF x \in busy THEN [req[x] EXCEPT !.conc = TRUE]
                 ELSE req[x]]
  /\ UNCHANGED <<hubVars, connVars, db0, dbSessions, dbTickets, dbVotes, ticketSeq, events>>

\* The head of a running handler's todo is the storage call `name`.
AtCall(r, name) ==
  req[r].pc = "run" /\ req[r].todo # <<>> /\ Head(req[r].todo) = name

\* The storage call returned without error.
Returned(r) == req' = [req EXCEPT ![r].todo = Tail(@)]

\* ------------------------------------------------- reading the session
\* The handlers that begin with h.sessionService.GetSessionByID(sessionID).
\* The statements of GetSessionByID run outside a transaction, one a step;
\* the statements of other requests may run between them.
SessionReaders == {"StartVoting", "EndVoting", "NextTicket", "SelectTicket", "CreateTicket",
                   "DeleteTicket", "UpdateTicket", "SubmitVote", "DeleteSession",
                   "ReviewSession", "GetSession"}

\* GetSessionByID: SELECT ... FROM sessions WHERE id = ?; sql.ErrNoRows gives
\* the handler nil. (getSessionParticipants follows; no handler of this part
\* reads session.Participants, so it has no step of its own here.)
\* SubmitVote reaches the read only with a vote that ValidateVoteValue
\* accepts.
GetSessionRow(r) ==
  /\ req[r].pc = "get" /\ req[r].op \in SessionReaders
  /\ req[r].op = "SubmitVote" => req[r].vote \in validVotes
  /\ IF req[r].sess \notin DOMAIN dbSessions
       THEN req' = [req EXCEPT ![r].pc = "got", ![r].session = NoSession]
       ELSE req' = [req EXCEPT ![r].pc = "tickets",
                               ![r].session = [NoSession EXCEPT
                                  !.owner = dbSessions[req[r].sess].owner,
                                  !.cur = dbSessions[req[r].sess].cur,
                                  !.voting = dbSessions[req[r].sess].voting]]
  /\ UNCHANGED <<hubVars, connVars, db0, calls, dbSessions, dbTickets, dbVotes, ticketSeq, nreq, events>>

\* getSessionTickets: SELECT ... FROM tickets WHERE session_id = ? ORDER BY
\* position; the rows are those of the moment of the query. Without a row
\* the loops of getSessionTickets and GetSessionByID do nothing.
GetSessionTickets(r) ==
  /\ req[r].pc = "tickets"
  /\ LET ts == OrderByPosition(TicketsOf(req[r].sess)) IN
       req' = [req EXCEPT ![r].pc = IF ts = <<>> THEN "got" ELSE "tvotes",
                          ![r].session.tickets = ts]
  /\ UNCHANGED <<hubVars, connVars, db0, calls, dbSessions, dbTickets, dbVotes, ticketSeq, nreq, events>>

\* getSessionTickets, for each row: getTicketVotes(ticket.ID) into
\* ticket.Votes, a query of its own. After the last row GetSessionByID looks
\* for CurrentTicketID among the tickets and points CurrentTicket to it.
GetTicketVotes(r) ==
  /\ req[r].pc = "tvotes"
  /\ LET session == req[r].session
         ts == session.tickets
         i == Len(session.tvotes) + 1
         found == session.cur \cap {ts[j] : j \in 1..Len(ts)}
     IN req' = [req EXCEPT
                  ![r].pc = IF i < Len(ts) THEN "tvotes"
                            ELSE IF found # {} THEN "votes" ELSE "got",
                  ![r].session = [session EXCEPT
                     !.tvotes = Append(@, VotesOf(ts[i])),
                     !.current = IF i < Len(ts) THEN {} ELSE found]]
  /\ UNCHANGED <<hubVars, connVars, db0, calls, dbSessions, dbTickets, dbVotes, ticketSeq, nreq, events>>

\* GetSessionByID: getTicketVotes(*session.CurrentTicketID) into
\* session.CurrentTicket.Votes, which is the Votes of that element of
\* session.Tickets.
GetCurrentTicketVotes(r) ==
  /\ req[r].pc = "votes"
  /\ LET session == req[r].session IN
       req' = [req EXCEPT
                 ![r].pc = "got",
                 ![r].session.tvotes = [i \in 1..Len(session.tickets) |->
                    IF session.tickets[i] \in session.current
                      THEN VotesOf(session.tickets[i]) ELSE session.tvotes[i]]]
  /\ UNCHANGED <<hubVars, connVars, db0, calls, dbSessions, dbTickets, dbVotes, ticketSeq, nreq, events>>

\* --------------------------------------------------------- handler entries
\* Each entry runs the handler from the return of GetSessionByID up to its
\* first storage call that follows, or to the early return.

\* Handler.StartVoting.
StartVoting(r) ==
  /\ req[r].pc = "got" /\ req[r].op = "StartVoting"
  /\ LET session == req[r].session IN
       IF session = NoSession THEN Reply(r, 404)
       ELSE IF ~ IsOwner(session, req[r].user) THEN Reply(r, 403)
       ELSE IF session.current = {} THEN Reply(r, 400)
       ELSE Continue(r, [session EXCEPT !.voting = TRUE],
                     IdOf(session.current),
                     <<"UpdateSession", "ClearVotesForTicket", "Broadcast">>,
                     "voting-started")
  /\ UNCHANGED <<hubVars, connVars, db0, calls, dbSessions, dbTickets, dbVotes, ticketSeq, nreq, events>>

\* Handler.EndVoting.
EndVoting(r) ==
  /\ req[r].pc = "got" /\ req[r].op = "EndVoting"
  /\ LET session == req[r].session IN
       IF session = NoSession THEN Reply(r, 404)
       ELSE IF ~ IsOwner(session, req[r].user) THEN Reply(r, 403)
       ELSE Continue(r, [session EXCEPT !.voting = FALSE], IdOf(session.current),
                     <<"UpdateSession", "GetVotesForTicket", "Broadcast">>,
                     "voting-ended")
  /\ UNCHANGED <<hubVars, connVars, db0, calls, dbSessions, dbTickets, dbVotes, ticketSeq, nreq, events>>

\* Variant: NextTicket always starting over with the first ticket.
FindFirst(session) ==
  IF Len(session.tickets) > 0 THEN {session.tickets[1]} ELSE {}

\* NextTicket: the ticket after session.CurrentTicket in session.Tickets, the
\* first ticket when there is no current ticket, or none.
FindNext(session) ==
  LET ts == session.tickets IN
    IF session.current = {}
      THEN (IF Len(ts) > 0 THEN {ts[1]} ELSE {})
      ELSE {ts[i + 1] : i \in {j \in 1..Len(ts) : ts[j] \in session.current /\ j + 1 <= Len(ts)}}

\* Handler.NextTicket.
NextTicket(r) ==
  /\ req[r].pc = "got" /\ req[r].op = "NextTicket"
  /\ LET session == req[r].session IN
       IF session = NoSession THEN Reply(r, 404)
       ELSE IF ~ IsOwner(session, req[r].user) THEN Reply(r, 403)
       ELSE Continue(r, [session EXCEPT !.cur = FindNext(session), !.voting = FALSE],
                     IdOf(FindNext(session)),
                     <<"UpdateSession", "Broadcast">>, "ticket-changed")
  /\ UNCHANGED <<hubVars, connVars, db0, calls, dbSessions, dbTickets, dbVotes, ticketSeq, nreq, events>>

\* Handler.SelectTicket.
SelectTicket(r) ==
  /\ req[r].pc = "got" /\ req[r].op = "SelectTicket"
  /\ LET session == req[r].session
         ts == session.tickets
     IN
       IF session = NoSession THEN Reply(r, 404)
       ELSE IF ~ IsOwner(session, req[r].user) THEN Reply(r, 403)
       ELSE IF req[r].tid \notin {ts[i] : i \in 1..Len(ts)} THEN Reply(r, 404)
       ELSE Continue(r, [session EXCEPT !.cur = {req[r].tid}, !.voting = FALSE],
                     req[r].tid, <<"UpdateSession", "Broadcast">>, "ticket-changed")
  /\ UNCHANGED <<hubVars, connVars, db0, calls, dbSessions, dbTickets, dbVotes, ticketSeq, nreq, events>>

\* Handler.CreateTicket (the title of the form is valid).
CreateTicket(r) ==
  /\ req[r].pc = "got" /\ req[r].op = "CreateTicket"
  /\ LET session == req[r].session IN
       IF session = NoSession THEN Reply(r, 404)
       ELSE IF ~ IsOwner(session, req[r].user) THEN Reply(r, 403)
       ELSE Continue(r, session, 0, <<"SvcCreateTicketMax", "SvcCreateTicketInsert", "Broadcast">>,
                     "ticket-created")
  /\ UNCHANGED <<hubVars, connVars, db0, calls, dbSessions, dbTickets, dbVotes, ticketSeq, nreq, events>>

\* Handler.DeleteTicket (the ticketID of the URL is a numeral).
DeleteTicket(r) ==
  /\ req[r].pc = "got" /\ req[r].op = "DeleteTicket"
  /\ LET session == req[r].session IN
       IF session = NoSession THEN Reply(r, 404)
       ELSE IF ~ IsOwner(session, req[r].user) THEN Reply(r, 403)
       ELSE Continue(r, session, req[r].tid, <<"GetTicketByID">>, "ticket-deleted")
  /\ UNCHANGED <<hubVars, connVars, db0, calls, dbSessions, dbTickets, dbVotes, ticketSeq, nreq, events>>

\* Handler.UpdateTicket (the ticketID of the URL is a numeral). The handler
\* is defined but main.go routes no request to it.
UpdateTicket(r) ==
  /\ req[r].pc = "got" /\ req[r].op = "UpdateTicket"
  /\ LET session == req[r].session IN
       IF session = NoSession THEN Reply(r, 404)
       ELSE IF ~ IsOwner(session, req[r].user) THEN Reply(r, 403)
       ELSE Continue(r, session, req[r].tid, <<"GetTicketByID">>, "ticket-updated")
  /\ UNCHANGED <<hubVars, connVars, db0, calls, dbSessions, dbTickets, dbVotes, ticketSeq, nreq, events>>

\* Variant: SubmitVote without the test of session.CurrentTicket.
SubmitVoteAnyState(r) ==
  /\ req[r].pc \in {"get", "got"} /\ req[r].op = "SubmitVote"
  /\ req[r].pc = "get" => req[r].vote \notin validVotes
  /\ LET session == req[r].session IN
       IF req[r].vote \notin validVotes THEN Reply(r, 400)
       ELSE IF session = NoSession THEN Reply(r, 404)
       ELSE IF req[r].vote \notin AllVotingCards THEN Reply(r, 400)
       ELSE Continue(r, session, IdOf(session.current),
                     <<"SvcSubmitVote", "Broadcast">>, "vote-cast")
  /\ UNCHANGED <<hubVars, connVars, db0, calls, dbSessions, dbTickets, dbVotes, ticketSeq, nreq, events>>

\* Handler.SubmitVote: utils.ValidateVoteValue (validVotes) comes before
\* GetSessionByID, the other tests after it.
SubmitVote(r) ==
  /\ req[r].pc \in {"get", "got"} /\ req[r].op = "SubmitVote"
  /\ req[r].pc = "get" => req[r].vote \notin validVotes
  /\ LET session == req[r].session IN
       IF req[r].vote \notin validVotes THEN Reply(r, 400)
       ELSE IF session = NoSession THEN Reply(r, 404)
       ELSE IF session.current = {} THEN Reply(r, 400)
       ELSE IF req[r].vote \notin AllVotingCards THEN Reply(r, 400)
       ELSE Continue(r, session, IdOf(session.current),
                     <<"SvcSubmitVote", "Broadcast">>, "vote-cast")
  /\ UNCHANGED <<hubVars, connVars, db0, calls, dbSessions, dbTickets, dbVotes, ticketSeq, nreq, events>>

\* Handler.DeleteSession: the broadcast comes before the deletion.
DeleteSession(r) ==
  /\ req[r].pc = "got" /\ req[r].op = "DeleteSession"
  /\ LET session == req[r].session IN
       IF session = NoSession THEN Reply(r, 404)
       ELSE IF ~ IsOwner(session, req[r].user) THEN Reply(r, 403)
       ELSE Continue(r, session, 0, <<"Broadcast", "SvcDeleteSession">>, "session-ended")
  /\ UNCHANGED <<hubVars, connVars, db0, calls, dbSessions, dbTickets, dbVotes, ticketSeq, nreq, events>>

\* Handler.ReviewSession: session-ended is broadcast and the session stays
\* as it is; the answer is 204.
ReviewSession(r) ==
  /\ req[r].pc = "got" /\ req[r].op = "ReviewSession"
  /\ LET session == req[r].session IN
       IF session = NoSession THEN Reply(r, 404)
       ELSE IF ~ IsOwner(session, req[r].user) THEN Reply(r, 403)
       ELSE Continue(r, session, 0, <<"Broadcast">>, "session-ended")
  /\ UNCHANGED <<hubVars, connVars, db0, calls, dbSessions, dbTickets, dbVotes, ticketSeq, nreq, events>>

\* ----------------------------------------------------------- storage calls
\* SessionService.UpdateSession: UPDATE sessions SET name, current_ticket_id,
\* is_voting_active ... WHERE id = ?, from the handler's copy of the session.
UpdateSession(r) ==
  /\ AtCall(r, "UpdateSession")
  /\ dbSessions' = IF req[r].sess \in DOMAIN dbSessions
                     THEN [dbSessions EXCEPT ![req[r].sess].cur = req[r].session.cur,
                                             ![req[r].sess].voting = req[r].session.voting]
                     ELSE dbSessions
  /\ Returned(r)
  /\ UNCHANGED <<hubVars, connVars, db0, calls, dbTickets, dbVotes, ticketSeq, nreq, events>>

\* Variant: StartVoting without the DELETE FROM votes.
ClearNoVotes(r) ==
  /\ AtCall(r, "ClearVotesForTicket")
  /\ dbVotes' = dbVotes
  /\ Returned(r)
  /\ UNCHANGED <<hubVars, connVars, db0, calls, dbSessions, dbTickets, ticketSeq, nreq, events>>

\* VotingService.ClearVotesForTicket(session.CurrentTicket.ID).
ClearVotesForTicket(r) ==
  /\ AtCall(r, "ClearVotesForTicket")
  /\ dbVotes' = {v \in dbVotes : v.tid \notin req[r].session.current}
  /\ Returned(r)
  /\ UNCHANGED <<hubVars, connVars, db0, calls, dbSessions, dbTickets, ticketSeq, nreq, events>>

\* EndVoting: VotingService.GetVotesForTicket(session.CurrentTicket.ID); with
\* CurrentTicket nil the dereference panics and middleware.Recoverer answers
\* 500.
GetVotesForTicket(r) ==
  /\ AtCall(r, "GetVotesForTicket")
  /\ IF req[r].session.current = {} THEN Reply(r, 500)
     ELSE req' = [req EXCEPT ![r].todo = Tail(@), ![r].votes = VotesOf(req[r].tid)]
  /\ UNCHANGED <<hubVars, connVars, db0, calls, dbSessions, dbTickets, dbVotes, ticketSeq, nreq, events>>

\* Variant: DeleteTicket / UpdateTicket without the test of ticket.SessionID.
BelongsToAny(t, sid) == TRUE

\* ticket.SessionID != sessionID: the ticket row belongs to the session of
\* the URL.
BelongsTo(t, sid) == dbTickets[t].sess = sid

\* Variant: delete-ticket never takes the ticket for the current one.
NeverCurrentTicket(session, t) == FALSE

\* Handler.DeleteTicket: session.CurrentTicketID != nil &&
\* *session.CurrentTicketID == ticketID, on the session read at entry.
IsCurrentTicket(session, t) == session.cur = {t}

\* DeleteTicket / UpdateTicket: TicketService.GetTicketByID and the tests on
\* its result, up to the next storage call.
GetTicketByID(r) ==
  /\ AtCall(r, "GetTicketByID")
  /\ LET t == req[r].tid
         session == req[r].session
     IN
       IF t \notin DOMAIN dbTickets THEN Reply(r, 404)
       ELSE IF ~ BelongsTo(t, req[r].sess) THEN Reply(r, 400)
       ELSE LET row == [id |-> t, sess |-> dbTickets[t].sess, pos |-> dbTickets[t].pos,
                        title |-> dbTickets[t].title]
            IN IF req[r].op = "UpdateTicket"
                 THEN req' = [req EXCEPT ![r].ticket = [row EXCEPT !.title = "new"],
                                         ![r].todo = <<"SvcUpdateTicket", "Broadcast">>]
                 ELSE IF IsCurrentTicket(session, t)
                   THEN req' = [req EXCEPT
                          ![r].session = [session EXCEPT !.cur = {}, !.voting = FALSE],
                          ![r].todo = <<"UpdateSession", "SvcDeleteTicketGet",
                                        "SvcDeleteTicketTx", "Broadcast">>]
                   ELSE req' = [req EXCEPT
                          ![r].todo = <<"SvcDeleteTicketGet", "SvcDeleteTicketTx",
                                        "Broadcast">>]
  /\ UNCHANGED <<hubVars, connVars, db0, calls, dbSessions, dbTickets, dbVotes, ticketSeq, nreq, events>>

\* TicketService.CreateTicket: SELECT COALESCE(MAX(position), 0).
SvcCreateTicketMax(r) ==
  /\ AtCall(r, "SvcCreateTicketMax")
  /\ LET ps == {dbTickets[t].pos : t \in TicketsOf(req[r].sess)}
         maxPosition == IF ps = {} THEN 0 ELSE CHOOSE p \in ps : \A q \in ps : q <= p
     IN req' = [req EXCEPT ![r].todo = Tail(@),
                           ![r].ticket = [NoTicket EXCEPT !.sess = req[r].sess,
                                                          !.pos = maxPosition + 1,
                                                          !.title = "old"]]
  /\ UNCHANGED <<hubVars, connVars, db0, calls, dbSessions, dbTickets, dbVotes, ticketSeq, nreq, events>>

\* TicketService.CreateTicket: INSERT INTO tickets; the id is the next of the
\* AUTOINCREMENT sequence; session_id REFERENCES sessions(id), so the statement
\* fails for a session that is gone and the handler answers 500.
SvcCreateTicketInsert(r) ==
  /\ AtCall(r, "SvcCreateTicketInsert")
  /\ LET id == ticketSeq + 1 IN
       IF req[r].sess \notin DOMAIN dbSessions
         THEN Reply(r, 500) /\ UNCHANGED <<ticketSeq, dbTickets>>
         ELSE /\ ticketSeq' = id
              /\ dbTickets' = [t \in DOMAIN dbTickets \cup {id} |->
                                 IF t = id THEN [sess |-> req[r].ticket.sess,
                                                 pos |-> req[r].ticket.pos,
                                                 title |-> req[r].ticket.title]
                                 ELSE dbTickets[t]]
              /\ req' = [req EXCEPT ![r].todo = Tail(@), ![r].tid = id]
  /\ UNCHANGED <<hubVars, connVars, db0, calls, dbSessions, dbVotes, nreq, events>>

\* TicketService.DeleteTicket: its own GetTicketByID; "ticket not found" is
\* an error, which the handler answers with 500.
SvcDeleteTicketGet(r) ==
  /\ AtCall(r, "SvcDeleteTicketGet")
  /\ LET t == req[r].tid IN
       IF t \notin DOMAIN dbTickets THEN Reply(r, 500)
       ELSE req' = [req EXCEPT ![r].todo = Tail(@),
                               ![r].ticket = [id |-> t, sess |-> dbTickets[t].sess,
                                              pos |-> dbTickets[t].pos,
                                              title |-> dbTickets[t].title]]
  /\ UNCHANGED <<hubVars, connVars, db0, calls, dbSessions, dbTickets, dbVotes, ticketSeq, nreq, events>>

\* TicketService.DeleteTicket: the transaction: DELETE FROM tickets WHERE
\* id = ? (the votes of the ticket go with it, ON DELETE CASCADE) and UPDATE
\* tickets SET position = position - 1 WHERE session_id = ? AND position > ?.
SvcDeleteTicketTx(r) ==
  /\ AtCall(r, "SvcDeleteTicketTx")
  /\ LET t == req[r].tid
         old == req[r].ticket
     IN
       /\ dbTickets' = [x \in DOMAIN dbTickets \ {t} |->
                          IF dbTickets[x].sess = old.sess /\ dbTickets[x].pos > old.pos
                            THEN [dbTickets[x] EXCEPT !.pos = @ - 1]
                            ELSE dbTickets[x]]
       /\ dbVotes' = {v \in dbVotes : v.tid # t}
  /\ Returned(r)
  /\ UNCHANGED <<hubVars, connVars, db0, calls, dbSessions, ticketSeq, nreq, events>>

\* TicketService.UpdateTicket: UPDATE tickets SET title, description,
\* final_estimate, position WHERE id = ?, from the handler's copy.
SvcUpdateTicket(r) ==
  /\ AtCall(r, "SvcUpdateTicket")
  /\ LET t == req[r].tid IN
       dbTickets' = IF t \in DOMAIN dbTickets
                      THEN [dbTickets EXCEPT ![t].title = req[r].ticket.title,
                                             ![t].pos = req[r].ticket.pos]
                      ELSE dbTickets
  /\ Returned(r)
  /\ UNCHANGED <<hubVars, connVars, db0, calls, dbSessions, dbVotes, ticketSeq, nreq, events>>

\* Variant: a plain INSERT INTO votes on a table without the UNIQUE
\* constraint.
InsertRow(rows, row) == rows \cup {row}

\* INSERT OR REPLACE INTO votes under UNIQUE(ticket_id, user_id): the rows in
\* conflict with the new row are deleted, then the row is inserted.
InsertOrReplace(rows, row) ==
  {v \in rows : ~ (v.tid = row.tid /\ v.user = row.user)} \cup {row}

\* VotingService.SubmitVote: INSERT OR REPLACE INTO votes; ticket_id
\* REFERENCES tickets(id), so the statement fails for a ticket that is gone
\* and the handler answers 500.
SvcSubmitVote(r) ==
  /\ AtCall(r, "SvcSubmitVote")
  /\ LET t == req[r].tid IN
       IF t \notin DOMAIN dbTickets
         THEN Reply(r, 500) /\ dbVotes' = dbVotes
         ELSE /\ dbVotes' = InsertOrReplace(dbVotes, [tid |-> t, user |-> req[r].user,
                                                      value |-> req[r].vote])
              /\ Returned(r)
  /\ UNCHANGED <<hubVars, connVars, db0, calls, dbSessions, dbTickets, ticketSeq, nreq, events>>

\* SessionService.DeleteSession: DELETE FROM sessions WHERE id = ?; the tickets
\* of the session, their votes and its participants rows go with it (ON
\* DELETE CASCADE). The handler answers 204.
DeleteFromSessions(sid) ==
  /\ dbSessions' = [s \in DOMAIN dbSessions \ {sid} |-> dbSessions[s]]
  /\ dbTickets' = [t \in DOMAIN dbTickets \ TicketsOf(sid) |-> dbTickets[t]]
  /\ dbVotes' = {v \in dbVotes : v.tid \notin TicketsOf(sid)}
  /\ dbParticipants' = {x \in dbParticipants : x[1] # sid}

\* SessionService.DeleteSession called by Handler.DeleteSession, which then
\* answers 204.
SvcDeleteSession(r) ==
  /\ AtCall(r, "SvcDeleteSession")
  /\ DeleteFromSessions(req[r].sess)
  /\ Reply(r, 204)
  /\ UNCHANGED <<hubVars, refused, connecting, db0, calls, ticketSeq, nreq, events>>

\* Variant: Data points to the handler's own record of the request, which
\* the handler goes on writing (its response status) after the call.
MessageOfRequest(r) ==
  [type |-> req[r].evt, sess |-> req[r].sess, tid |-> req[r].tid, rid |-> req[r].id,
   user |-> IF req[r].evt \in {"vote-cast", "user-joined", "user-left"}
              THEN req[r].user ELSE "-",
   vote |-> IF req[r].evt = "vote-cast" THEN req[r].vote ELSE "-",
   votes |-> IF req[r].evt = "voting-ended" THEN req[r].votes ELSE {},
   tvotes |-> req[r].tvotes,
   status |-> req[r].status]

\* The message of a handler's Broadcast call: Type, the session, and of Data
\* the ticket id, for vote-cast the user and the vote, for user-joined and
\* user-left the user, for voting-ended the votes of GetVotesForTicket
\* (votes), and the Votes inside the ticket object (tvotes); rid is the call
\* that makes it.
Message(r) ==
  [type |-> req[r].evt, sess |-> req[r].sess, tid |-> req[r].tid, rid |-> req[r].id,
   user |-> IF req[r].evt \in {"vote-cast", "user-joined", "user-left"}
              THEN req[r].user ELSE "-",
   vote |-> IF req[r].evt = "vote-cast" THEN req[r].vote ELSE "-",
   votes |-> IF req[r].evt = "voting-ended" THEN req[r].votes ELSE {},
   tvotes |-> req[r].tvotes]

\* Variant: the handler responds without calling Broadcast.
AnnounceNothing(log, m) == log

\* Variant: the handler calls Broadcast twice.
AnnounceTwice(log, m) == Append(Append(log, m), m)

\* WSService.Broadcast as the handlers see it: one message handed to the hub.
Announce(log, m) == Append(log, m)

\* h.wsService.Broadcast(sessionID, message): the hub goroutine has taken the
\* message and the call returns; the handler has not responded yet.
BroadcastEvent(r) ==
  /\ AtCall(r, "Broadcast")
  /\ events' = Announce(events, Message(r))
  /\ req' = [req EXCEPT ![r].todo = IF Tail(@) = <<>> THEN <<"Respond">> ELSE Tail(@)]
  /\ UNCHANGED <<hubVars, connVars, db0, calls, dbSessions, dbTickets, dbVotes, ticketSeq, nreq>>

\* The status a handler responds with after its Broadcast: CreateTicket 200
\* for a request with the header HX-Request and a redirect (303) without it,
\* SubmitVote 200, LeaveSession and ReviewSession 204, the others a
\* redirect. (GetSession reads the session again before it responds.)
StatusOf(r) ==
  IF req[r].op = "SubmitVote" THEN 200
  ELSE IF req[r].op \in {"LeaveSession", "ReviewSession"} THEN 204
  ELSE IF req[r].op = "CreateTicket" /\ req[r].hx THEN 200
  ELSE 303

\* w.WriteHeader / http.Redirect at the end of a handler.
Respond(r) ==
  /\ AtCall(r, "Respond")
  /\ Reply(r, StatusOf(r))
  /\ UNCHANGED <<hubVars, connVars, db0, calls, dbSessions, dbTickets, dbVotes, ticketSeq, nreq, events>>

\* --------------------------------------------------------- specification
\* The database of a run: session s1 of u1 with one ticket, selected or not,
\* and session s2 of u2 with one ticket, on which u2 has voted.
InitSession ==
  /\ HubStart
  /\ svc = "ws"
  /\ \E c \in {{}, {1}} :
       dbSessions = [s \in Sessions |->
                       IF s = "s1" THEN [owner |-> "u1", cur |-> c, voting |-> FALSE]
                                   ELSE [owner |-> "u2", cur |-> {}, voting |-> FALSE]]
  /\ dbTickets = (1 :> [sess |-> "s1", pos |-> 1, title |-> "old"]) @@
                 (2 :> [sess |-> "s2", pos |-> 1, title |-> "old"])
  /\ dbVotes = {[tid |-> 2, user |-> "u2", value |-> "3"]}
  /\ ticketSeq = 2
  /\ req = [r \in ReqSlots |-> Blank]
  /\ nreq = 0
  /\ events = <<>>
  /\ calls = <<>>
  /\ db0 = [sessions |-> dbSessions, tickets |-> dbTickets, votes |-> dbVotes]
  /\ dbParticipants = {<<"s1", "u1">>, <<"s2", "u2">>}
  /\ refused = {}
  /\ connecting = {}

\* A step of the handler running in slot r.
HandlerStep(r) ==
  \/ GetSessionRow(r) \/ GetSessionTickets(r) \/ GetTicketVotes(r)
  \/ GetCurrentTicketVotes(r) \/ ReviewSession(r) \/ Respond(r)
  \/ StartVoting(r) \/ EndVoting(r) \/ NextTicket(r) \/ SelectTicket(r)
  \/ CreateTicket(r) \/ DeleteTicket(r) \/ UpdateTicket(r) \/ SubmitVote(r)
  \/ DeleteSession(r) \/ SvcDeleteSession(r)
  \/ UpdateSession(r) \/ ClearVotesForTicket(r) \/ GetVotesForTicket(r)
  \/ GetTicketByID(r) \/ SvcCreateTicketMax(r) \/ SvcCreateTicketInsert(r)
  \/ SvcDeleteTicketGet(r) \/ SvcDeleteTicketTx(r) \/ SvcUpdateTicket(r)
  \/ SvcSubmitVote(r) \/ BroadcastEvent(r)

\* A request for slot r that main.go routes to a handler of this part, with
\* the arguments the handler reads.
Request(r) ==
  \E s \in ReqSessions, u \in Users :
    \/ \E op \in {"StartVoting", "EndVoting", "NextTicket", "DeleteSession",
                  "ReviewSession"} :
         Arrive(r, op, s, u, 0, "-", FALSE)
    \/ \E hx \in BOOLEAN : Arrive(r, "CreateTicket", s, u, 0, "-", hx)
    \/ \E op \in {"SelectTicket", "DeleteTicket"}, t \in TicketArgs :
         Arrive(r, op, s, u, t, "-", FALSE)
    \/ \E v \in VoteArgs : Arrive(r, "SubmitVote", s, u, 0, v, FALSE)

\* A request arrives while the other slot may be busy.
Arrival(r) ==
  /\ nreq < MaxReqs
  /\ Request(r)
  /\ UNCHANGED calls

\* The same, and calls records the request with the set of the calls that had
\* been answered when it arrived.
ArrivalRecorded(r) ==
  /\ nreq < MaxReqs
  /\ Request(r)
  /\ calls' = Append(calls, [op |-> req'[r].op, user |-> req'[r].user, sess |-> req'[r].sess,
                              tid |-> req'[r].tid, vote |-> req'[r].vote,
                              after |-> (1..nreq) \ {req[x].id : x \in {y \in ReqSlots : InFlight(y)}}])

\* A request arrives when every earlier request has been answered.
ArrivalAlone(r) ==
  /\ nreq < MaxSerial
  /\ \A x \in ReqSlots : ~ InFlight(x)
  /\ Request(r)
  /\ UNCHANGED calls

NextSession ==
  \/ \E r \in ReqSlots : Arrival(r)
  \/ \E r \in ReqSlots : GetSessionRow(r)
  \/ \E r \in ReqSlots : GetSessionTickets(r)
  \/ \E r \in ReqSlots : GetTicketVotes(r)
  \/ \E r \in ReqSlots : GetCurrentTicketVotes(r)
  \/ \E r \in ReqSlots : StartVoting(r)
  \/ \E r \in ReqSlots : EndVoting(r)
  \/ \E r \in ReqSlots : NextTicket(r)
  \/ \E r \in ReqSlots : SelectTicket(r)
  \/ \E r \in ReqSlots : CreateTicket(r)
  \/ \E r \in ReqSlots : DeleteTicket(r)
  \/ \E r \in ReqSlots : SubmitVote(r)
  \/ \E r \in ReqSlots : UpdateSession(r)
  \/ \E r \in ReqSlots : ClearVotesForTicket(r)
  \/ \E r \in ReqSlots : GetVotesForTicket(r)
  \/ \E r \in ReqSlots : GetTicketByID(r)
  \/ \E r \in ReqSlots : SvcCreateTicketMax(r)
  \/ \E r \in ReqSlots : SvcCreateTicketInsert(r)
  \/ \E r \in ReqSlots : SvcDeleteTicketGet(r)
  \/ \E r \in ReqSlots : SvcDeleteTicketTx(r)
  \/ \E r \in ReqSlots : SvcSubmitVote(r)
  \/ \E r \in ReqSlots : BroadcastEvent(r)
  \/ \E r \in ReqSlots : DeleteSession(r)
  \/ \E r \in ReqSlots : SvcDeleteSession(r)
  \/ \E r \in ReqSlots : ReviewSession(r)
  \/ \E r \in ReqSlots : Respond(r)

SpecSession == InitSession /\ [][NextSession]_vars

\* The handlers with requests in flight together, and the record of the calls.
NextHistory ==
  \/ \E r \in ReqSlots : ArrivalRecorded(r)
  \/ \E r \in ReqSlots : GetSessionRow(r)
  \/ \E r \in ReqSlots : GetSessionTickets(r)
  \/ \E r \in ReqSlots : GetTicketVotes(r)
  \/ \E r \in ReqSlots : GetCurrentTicketVotes(r)
  \/ \E r \in ReqSlots : StartVoting(r)
  \/ \E r \in ReqSlots : EndVoting(r)
  \/ \E r \in ReqSlots : NextTicket(r)
  \/ \E r \in ReqSlots : SelectTicket(r)
  \/ \E r \in ReqSlots : CreateTicket(r)
  \/ \E r \in ReqSlots : DeleteTicket(r)
  \/ \E r \in ReqSlots : SubmitVote(r)
  \/ \E r \in ReqSlots : UpdateSession(r)
  \/ \E r \in ReqSlots : ClearVotesForTicket(r)
  \/ \E r \in ReqSlots : GetVotesForTicket(r)
  \/ \E r \in ReqSlots : GetTicketByID(r)
  \/ \E r \in ReqSlots : SvcCreateTicketMax(r)
  \/ \E r \in ReqSlots : SvcCreateTicketInsert(r)
  \/ \E r \in ReqSlots : SvcDeleteTicketGet(r)
  \/ \E r \in ReqSlots : SvcDeleteTicketTx(r)
  \/ \E r \in ReqSlots : SvcSubmitVote(r)
  \/ \E r \in ReqSlots : BroadcastEvent(r)
  \/ \E r \in ReqSlots : DeleteSession(r)
  \/ \E r \in ReqSlots : SvcDeleteSession(r)
  \/ \E r \in ReqSlots : ReviewSession(r)
  \/ \E r \in ReqSlots : Respond(r)

SpecHistory == InitSession /\ [][NextHistory]_vars

\* The handlers with one request at a time (slot 1).
NextSerial ==
  \/ ArrivalAlone(1)
  \/ GetSessionRow(1)
  \/ GetSessionTickets(1)
  \/ GetTicketVotes(1)
  \/ GetCurrentTicketVotes(1)
  \/ StartVoting(1)
  \/ EndVoting(1)
  \/ NextTicket(1)
  \/ SelectTicket(1)
  \/ CreateTicket(1)
  \/ DeleteTicket(1)
  \/ SubmitVote(1)
  \/ UpdateSession(1)
  \/ ClearVotesForTicket(1)
  \/ GetVotesForTicket(1)
  \/ GetTicketByID(1)
  \/ SvcCreateTicketMax(1)
  \/ SvcCreateTicketInsert(1)
  \/ SvcDeleteTicketGet(1)
  \/ SvcDeleteTicketTx(1)
  \/ SvcSubmitVote(1)
  \/ BroadcastEvent(1)
  \/ DeleteSession(1)
  \/ SvcDeleteSession(1)
  \/ ReviewSession(1)
  \/ Respond(1)

SpecSerial == InitSession /\ [][NextSerial]_vars

\* Calls of TicketService.ReorderTickets in a run, and the length of their
\* list of ticket ids.
MaxReorder == 2

\* TicketService.ReorderTickets(sessionID, ticketIDs): one transaction; for
\* i, ticketID: UPDATE tickets SET position = i + 1 WHERE id = ? AND
\* session_id = ? (i from 0). A ticket named twice keeps the later position;
\* tickets that are not named keep theirs.
ReorderTickets(sid, ids) ==
  [t \in DOMAIN dbTickets |->
     LET I == {i \in 1..Len(ids) : ids[i] = t} IN
       IF dbTickets[t].sess = sid /\ I # {}
         THEN [dbTickets[t] EXCEPT !.pos = CHOOSE i \in I : \A j \in I : j <= i]
         ELSE dbTickets[t]]

\* TicketService.ReorderTickets called as it is: no handler and no route of
\* the repository calls it.
CallReorderTickets ==
  /\ nreq < MaxSerial
  /\ \A x \in ReqSlots : ~ InFlight(x)
  /\ \E sid \in ReqSessions, n \in 1..MaxReorder : \E ids \in [1..n -> TicketArgs] :
       dbTickets' = ReorderTickets(sid, ids)
  /\ nreq' = nreq + 1
  /\ UNCHANGED <<hubVars, connVars, db0, calls, dbSessions, dbVotes, ticketSeq, req, events>>

\* Handler.UpdateTicket called as a handler: main.go routes no request to it
\* (the handler is code of the repository that the running server never
\* calls).
CallUpdateTicket(r) ==
  /\ \E s \in ReqSessions, u \in Users, t \in TicketArgs :
       Arrive(r, "UpdateTicket", s, u, t, "-", FALSE)
  /\ UNCHANGED calls

\* The call is made when every earlier request has been answered.
UpdateTicketAlone(r) ==
  /\ nreq < MaxSerial
  /\ \A x \in ReqSlots : ~ InFlight(x)
  /\ CallUpdateTicket(r)

\* The call is made while the other slot may be busy.
UpdateTicketArrival(r) ==
  /\ nreq < MaxReqs
  /\ CallUpdateTicket(r)

\* The handlers with one request at a time, Handler.UpdateTicket among them,
\* and TicketService.ReorderTickets.
NextUnrouted ==
  \/ ArrivalAlone(1)
  \/ UpdateTicketAlone(1)
  \/ CallReorderTickets
  \/ GetSessionRow(1)
  \/ GetSessionTickets(1)
  \/ GetTicketVotes(1)
  \/ GetCurrentTicketVotes(1)
  \/ StartVoting(1)
  \/ EndVoting(1)
  \/ NextTicket(1)
  \/ SelectTicket(1)
  \/ CreateTicket(1)
  \/ DeleteTicket(1)
  \/ UpdateTicket(1)
  \/ SubmitVote(1)
  \/ UpdateSession(1)
  \/ ClearVotesForTicket(1)
  \/ GetVotesForTicket(1)
  \/ GetTicketByID(1)
  \/ SvcCreateTicketMax(1)
  \/ SvcCreateTicketInsert(1)
  \/ SvcDeleteTicketGet(1)
  \/ SvcDeleteTicketTx(1)
  \/ SvcUpdateTicket(1)
  \/ SvcSubmitVote(1)
  \/ BroadcastEvent(1)
  \/ DeleteSession(1)
  \/ SvcDeleteSession(1)
  \/ ReviewSession(1)
  \/ Respond(1)

SpecUnrouted == InitSession /\ [][NextUnrouted]_vars

\* The handlers with requests in flight together, Handler.UpdateTicket among
\* them: every behaviour of SpecSession is one of these.
NextHandlers ==
  \/ \E r \in ReqSlots : Arrival(r)
  \/ \E r \in ReqSlots : UpdateTicketArrival(r)
  \/ \E r \in ReqSlots : GetSessionRow(r)
  \/ \E r \in ReqSlots : GetSessionTickets(r)
  \/ \E r \in ReqSlots : GetTicketVotes(r)
  \/ \E r \in ReqSlots : GetCurrentTicketVotes(r)
  \/ \E r \in ReqSlots : StartVoting(r)
  \/ \E r \in ReqSlots : EndVoting(r)
  \/ \E r \in ReqSlots : NextTicket(r)
  \/ \E r \in ReqSlots : SelectTicket(r)
  \/ \E r \in ReqSlots : CreateTicket(r)
  \/ \E r \in ReqSlots : DeleteTicket(r)
  \/ \E r \in ReqSlots : UpdateTicket(r)
  \/ \E r \in ReqSlots : SubmitVote(r)
  \/ \E r \in ReqSlots : UpdateSession(r)
  \/ \E r \in ReqSlots : ClearVotesForTicket(r)
  \/ \E r \in ReqSlots : GetVotesForTicket(r)
  \/ \E r \in ReqSlots : GetTicketByID(r)
  \/ \E r \in ReqSlots : SvcCreateTicketMax(r)
  \/ \E r \in ReqSlots : SvcCreateTicketInsert(r)
  \/ \E r \in ReqSlots : SvcDeleteTicketGet(r)
  \/ \E r \in ReqSlots : SvcDeleteTicketTx(r)
  \/ \E r \in ReqSlots : SvcUpdateTicket(r)
  \/ \E r \in ReqSlots : SvcSubmitVote(r)
  \/ \E r \in ReqSlots : BroadcastEvent(r)
  \/ \E r \in ReqSlots : DeleteSession(r)
  \/ \E r \in ReqSlots : SvcDeleteSession(r)
  \/ \E r \in ReqSlots : ReviewSession(r)
  \/ \E r \in ReqSlots : Respond(r)

SpecHandlers == InitSession /\ [][NextHandlers]_vars

\* =================================================================== claims
\* Number of times message m was sent on the channel of connection c.
Pushes(c, m) == Cardinality({j \in 1..Len(pushed[c]) : pushed[c][j] = m})

\* Goroutine i has visited every entry in the range of a call of the given
\* kind and still holds the read lock.
Finished(i, kind) ==
  it[i].pc = "range" /\ it[i].cur = {} /\ it[i].todo = {} /\ it[i].kind = kind

\* Connection c is of the session (and, for SendToUser, the user) of i's call.
Addressed(i, c) ==
  /\ conns[c].sess = it[i].sess
  /\ (it[i].kind = "user" => conns[c].user = it[i].user)

\* C1: when the range of a Broadcast(S, e) is over, e has been pushed exactly
\* once onto every connection registered for S that had room (the others are
\* the ones the call found full), never twice onto a connection, and never
\* onto a connection of another session.
C1_BroadcastDelivers ==
  /\ \A c \in ConnIds : \A j \in 1..Len(pushed[c]) :
       pushed[c][j].kind = "bcast" => conns[c].sess \in CallSessions
  /\ \A i \in Iters : Finished(i, "bcast") =>
       LET m == Msg("bcast", it[i].eid) IN
         /\ \A c \in ConnIds : Pushes(c, m) <= 1
         /\ \A c \in ConnIds : Pushes(c, m) = 1 => conns[c].sess = it[i].sess
         /\ \A c \in Registered :
              conns[c].sess = it[i].sess => (Pushes(c, m) = 1 \/ c \in it[i].full)
         /\ \A c \in it[i].full : Pushes(c, m) = 0

\* A Broadcast to s1 is over: a registered connection of s1 holds the event
\* and a registered connection of s2 does not.
C1_Witness ==
  \E i \in Iters : \E c, d \in Registered :
    /\ Finished(i, "bcast")
    /\ conns[c].sess = it[i].sess /\ Pushes(c, Msg("bcast", it[i].eid)) = 1
    /\ conns[d].sess # it[i].sess /\ pushed[d] = <<>>

\* C2: a connection whose queue is full neither stops the range nor keeps the
\* event from the others: a goroutine inside its range always has a next
\* step, and when a Broadcast that met a full queue is over, every other
\* registered connection of the session holds the event.
C2_FullQueueDoesNotBlock ==
  \A i \in Iters :
    /\ (it[i].pc = "range" /\ fault = "none") =>
         ENABLED (RangeNext(i) \/ Select(i) \/ RangeDone(i))
    /\ (Finished(i, "bcast") /\ it[i].full # {}) =>
         \A c \in Registered \ it[i].full :
           conns[c].sess = it[i].sess => Pushes(c, Msg("bcast", it[i].eid)) = 1

\* A Broadcast is over that found one connection full and pushed the event
\* onto another connection of the same session.
C2_Witness ==
  \E i \in Iters : \E c \in ConnIds : \E d \in Registered :
    /\ Finished(i, "bcast")
    /\ c \in it[i].full /\ d # c
    /\ conns[d].sess = it[i].sess
    /\ Pushes(d, Msg("bcast", it[i].eid)) = 1

\* C3: no interleaving of register, unregister, Broadcast and SendToUser
\* pushes an event onto a closed queue or closes a queue twice.
C3_NoSendOrCloseOnClosed ==
  fault \notin {"send on closed channel", "close of closed channel"}

\* C4: the broadcasts of a run are made one after the other by the calling
\* goroutine and numbered in call order: on every connection they are pushed
\* in call order, the queue holds the latest pushes in that order, and so
\* of two broadcasts in a queue the earlier call's is the one taken first.
C4_PushOrder ==
  \A c \in ConnIds :
    /\ \A j, k \in 1..Len(pushed[c]) :
         (j < k /\ pushed[c][j].kind = "bcast" /\ pushed[c][k].kind = "bcast")
           => pushed[c][j].id < pushed[c][k].id
    /\ \A j, k \in 1..Len(queue[c]) :
         (j < k /\ queue[c][j].kind = "bcast" /\ queue[c][k].kind = "bcast")
           => queue[c][j].id < queue[c][k].id
    /\ Len(queue[c]) <= Len(pushed[c])
    /\ queue[c] = SubSeq(pushed[c], Len(pushed[c]) - Len(queue[c]) + 1, Len(pushed[c]))

\* The buffer of a connection holds two broadcasts at once, the earlier call's
\* first.
C4_Witness ==
  \E c \in ConnIds :
    /\ Len(queue[c]) >= 2
    /\ queue[c][1].kind = "bcast" /\ queue[c][2].kind = "bcast"
    /\ queue[c][1].id < queue[c][2].id

\* C5 as claimed: no goroutine is still inside the range of a call that has
\* returned to its caller.
C5_NoPushAfterReturn ==
  \A i \in Iters : it[i].ret => it[i].pc # "range"

\* C5 as amended: SendToUser and the SSE Broadcast range before they return;
\* the WebSocket Broadcast returns when the hub goroutine has taken the
\* message, and the hub then ranges before it takes any other message
\* (register, unregister or broadcast).
C5_PushBeforeNextHubMessage ==
  \A i \in Iters : it[i].pc = "range" =>
    IF i = Hub
      THEN /\ svc = "ws" /\ it[i].kind = "bcast" /\ it[i].ret
           /\ \A g \in Callers : ~ ENABLED WSHubReceive(g)
           /\ \A c \in ConnIds :
                ~ ENABLED WSRegisterReceive(c) /\ ~ ENABLED WSUnregisterReceive(c)
      ELSE ~ it[i].ret

\* The hub is inside the range of a broadcast whose caller has gone on, with
\* a connection still to visit, while another message waits for the hub.
C5_Witness ==
  /\ it[Hub].pc = "range" /\ it[Hub].ret /\ it[Hub].todo # {}
  /\ \A g \in Callers : it[g].pc # "send" \/ it[g].eid # it[Hub].eid
  /\ \E c \in ConnIds : rp[c] \in {"wait", "unreg"}

\* A registration step.
RegisterStep ==
  \/ \E c \in ConnIds : WSRegister(c)
  \/ \E s \in Sessions, u \in Users : SSEAddClient(s, u)

\* C6: a user may register several connections to one session, and after
\* any sequence of registrations all of them are in the registry (where the
\* broadcasts that follow find them): a registration leaves every
\* registered connection in the registry.
C6_RegistrationKeepsAll ==
  [][RegisterStep => Registered \subseteq Registered']_vars

\* Two registered connections are of the same session and user.
SameOwner(c, d) == conns[c].sess = conns[d].sess /\ conns[c].user = conns[d].user

\* An unregistration step of connection c: the hub's unregister case, the
\* RemoveClient of a returning HandleSSE, a repeated RemoveClient.
UnregisterStep(c) == WSUnregister(c) \/ SSEHandleExit(c) \/ SSERemoveAgain(c)

\* C7: unregistering connection c raises no error, leaves the registry
\* unchanged when c is not registered (a second unregistration, a connection
\* that was never or is no longer registered), and removes no connection
\* other than c from the registry.
C7_UnregisterRemovesOnlyItself ==
  [][\A c \in ConnIds : UnregisterStep(c) =>
       /\ fault' = "none"
       /\ (Registered \ {c}) \subseteq Registered'
       /\ (c \notin Registered => Registered' = Registered)]_vars

\* C8: SendToUser(S, U, e) pushes e only onto connections of session S and
\* user U; when its range is over every registered connection of S and U
\* holds e once or was found full, and a connection found full is treated
\* as by Broadcast: removed and closed in the WebSocket hub, skipped in the
\* SSE service.
C8_SendToUserDelivers ==
  /\ \A c \in ConnIds : \A j \in 1..Len(pushed[c]) :
       pushed[c][j].kind = "user" =>
         conns[c].sess \in CallSessions /\ conns[c].user \in CallUsers
  /\ \A i \in Iters : Finished(i, "user") =>
       LET m == Msg("user", it[i].eid) IN
         /\ \A c \in ConnIds : Pushes(c, m) <= 1
         /\ \A c \in ConnIds : Pushes(c, m) = 1 => Addressed(i, c)
         /\ \A c \in Registered :
              Addressed(i, c) => (Pushes(c, m) = 1 \/ c \in it[i].full)
         /\ \A c \in it[i].full :
              /\ Pushes(c, m) = 0
              /\ svc = "ws" => (c \notin Registered /\ c \in closed)
              /\ svc = "sse" => c \in Registered

\* A SendToUser is over: a connection of the user holds the event and a
\* registered connection of another user of the session holds nothing.
C8_Witness ==
  \E i \in Iters : \E c, d \in Registered :
    /\ Finished(i, "user")
    /\ Addressed(i, c) /\ Pushes(c, Msg("user", it[i].eid)) = 1
    /\ conns[d].sess = it[i].sess /\ conns[d].user # it[i].user
    /\ pushed[d] = <<>>

\* The request in slot r is for an owner-only handler and its caller is not
\* the owner of the session.
NonOwner(r) ==
  /\ req[r].op \in OwnerOps
  /\ req[r].sess \in DOMAIN dbSessions
  /\ req[r].user # dbSessions[req[r].sess].owner

\* C9: no step of start-voting, end-voting, advance-ticket, select-ticket or
\* ticket create / update / delete (nor of delete-session or review-session,
\* which make the same test) called by a non-owner changes a session, ticket
\* or vote row or broadcasts an event, and the call is answered with 403
\* Forbidden.
C9_NonOwnerRejected ==
  /\ [][\A r \in ReqSlots : (NonOwner(r) /\ HandlerStep(r)) =>
          UNCHANGED <<dbSessions, dbTickets, dbVotes, ticketSeq, events>>]_vars
  /\ [](\A r \in ReqSlots :
          (NonOwner(r) /\ req[r].pc = "done") => req[r].status = 403)

\* A non-owner's delete of a ticket of the session has been answered, and the
\* ticket is still there.
C9_Witness ==
  \E r \in ReqSlots :
    /\ NonOwner(r) /\ req[r].op = "DeleteTicket"
    /\ req[r].pc = "done" /\ req[r].status = 403
    /\ req[r].tid \in TicketsOf(req[r].sess)

\* C10: of two start-voting calls by the owner that were in flight together
\* for the same session and the same ticket, not both succeed.
C10_OneStartVotingWins ==
  \A r1, r2 \in ReqSlots :
    ( /\ r1 # r2
      /\ \A r \in {r1, r2} :
           /\ req[r].op = "StartVoting" /\ req[r].pc = "done" /\ req[r].conc
           /\ req[r].sess \in DOMAIN dbSessions
           /\ req[r].user = dbSessions[req[r].sess].owner
      /\ req[r1].sess = req[r2].sess )
    => ~ (req[r1].status = 303 /\ req[r2].status = 303 /\ req[r1].tid = req[r2].tid)

\* ------------------------------------------------------------------- C11
\* The index of the last voting-started event for ticket t before event j
\* (0 when there is none).
LastStart(j, t) ==
  LET I == {i \in 1..(j - 1) : events[i].type = "voting-started" /\ events[i].tid = t}
  IN IF I = {} THEN 0 ELSE CHOOSE i \in I : \A k \in I : k <= i

\* The vote-cast events for ticket t between events i and j.
CastBetween(i, j, t) ==
  {k \in (i + 1)..(j - 1) : events[k].type = "vote-cast" /\ events[k].tid = t}

\* The latest vote of each user among the vote-cast events for t between
\* events i and j.
LatestVotes(i, j, t) ==
  LET K == CastBetween(i, j, t) IN
    {[user |-> events[k].user, value |-> events[k].vote] :
       k \in {x \in K : \A m \in K : events[m].user = events[x].user => m <= x}}

\* C11: with one request at a time, the votes that a voting-ended event
\* reports for a ticket are the latest vote of each user cast for the ticket
\* since the most recent voting-started event for it; votes cast before that
\* start are not among them.
C11_EndVotingReportsRound ==
  \A j \in 1..Len(events) :
    (events[j].type = "voting-ended" /\ LastStart(j, events[j].tid) > 0)
      => events[j].votes = LatestVotes(LastStart(j, events[j].tid), j, events[j].tid)

\* A vote was cast before start-voting, another after it, and end-voting
\* reported the second only.
C11_Witness ==
  \E j \in 1..Len(events) :
    /\ events[j].type = "voting-ended"
    /\ LastStart(j, events[j].tid) > 0
    /\ CastBetween(0, LastStart(j, events[j].tid), events[j].tid) # {}
    /\ events[j].votes # {}
    /\ \E k \in CastBetween(0, LastStart(j, events[j].tid), events[j].tid) :
         \A v \in events[j].votes : v.user # events[k].user

\* ------------------------------------------------------------------- C12
\* A voting-started event for ticket t has been pushed, and no start-voting
\* call has cleared the votes of t without having pushed its event yet.
StartAnnounced(t) ==
  /\ \E i \in 1..Len(events) : events[i].type = "voting-started" /\ events[i].tid = t
  /\ \A x \in ReqSlots :
       ~ (req[x].op = "StartVoting" /\ req[x].tid = t /\ AtCall(x, "Broadcast"))

\* C12: when a vote-cast event for a ticket is pushed after the
\* voting-started event of a start-voting call for the same ticket, and the
\* ticket still exists, the announced vote is stored: the start's clearing of
\* the votes has not removed it.
C12_CastAfterStartIsStored ==
  [][\A r \in ReqSlots :
       ( /\ BroadcastEvent(r) /\ req[r].op = "SubmitVote"
         /\ req[r].tid \in DOMAIN dbTickets
         /\ StartAnnounced(req[r].tid) )
       => \E v \in dbVotes : v.tid = req[r].tid /\ v.user = req[r].user]_vars

\* ------------------------------------------------------------------- C13
\* Start-voting has been carried out for ticket t.
Started(t) ==
  \E i \in 1..Len(events) : events[i].type = "voting-started" /\ events[i].tid = t

\* Session s has no current ticket (Idle), or has one for which voting was
\* never started (Selected).
IdleOrSelected(s) ==
  /\ s \in DOMAIN dbSessions
  /\ \/ GetSessionByID(s).current = {}
     \/ ~ Started(IdOf(GetSessionByID(s).current))

\* C13: with one request at a time, a vote submission to a session that has
\* no current ticket, or whose current ticket never had voting started, is
\* not answered 200 and pushes no vote-cast event.
C13_VoteRejectedBeforeStart ==
  \A r \in ReqSlots :
    (req[r].op = "SubmitVote" /\ req[r].pc = "done" /\ IdleOrSelected(req[r].sess))
      => /\ req[r].status # 200
         /\ \A j \in 1..Len(events) : events[j].rid # req[r].id

\* Session s has no current ticket.
IsIdle(s) == s \in DOMAIN dbSessions /\ GetSessionByID(s).current = {}

\* C13 (amended): with one request at a time, a vote submission to a session
\* that has no current ticket is answered 400, stores no vote and pushes no
\* event; a submission of a card that both lists hold to a session whose
\* current ticket never had voting started is answered 200.
C13_VoteRejectedWhenIdle ==
  /\ [][\A r \in ReqSlots :
          (req[r].op = "SubmitVote" /\ IsIdle(req[r].sess) /\ HandlerStep(r))
            => UNCHANGED <<dbVotes, events>>]_vars
  /\ [](\A r \in ReqSlots :
          (req[r].op = "SubmitVote" /\ req[r].pc = "done") =>
            /\ IsIdle(req[r].sess) => req[r].status = 400
            /\ ( /\ ~ IsIdle(req[r].sess) /\ IdleOrSelected(req[r].sess)
                 /\ req[r].vote \in validVotes \cap AllVotingCards )
                 => req[r].status = 200)

\* A vote of the deck was submitted to a session without current ticket and
\* answered 400.
C13_Witness ==
  \E r \in ReqSlots :
    /\ req[r].op = "SubmitVote" /\ req[r].pc = "done" /\ IsIdle(req[r].sess)
    /\ req[r].vote \in validVotes /\ req[r].status = 400
    /\ \A v \in dbVotes : v.tid \notin TicketsOf(req[r].sess)

\* ------------------------------------------------------------------- C14
\* Session s has a current ticket for which voting has been started: it is in
\* Voting, or after end-voting in Reviewing.
VotingOrReviewing(s) ==
  /\ s \in DOMAIN dbSessions
  /\ GetSessionByID(s).current # {}
  /\ Started(IdOf(GetSessionByID(s).current))

\* The events pushed by the call in slot r.
EventsOf(r) == {j \in 1..Len(events) : events[j].rid = req[r].id}

\* C14: with one request at a time, a submission of a vote value that
\* ValidateVoteValue and the deck accept, to a session in Voting or Reviewing,
\* is answered 200, the vote is the stored vote of the user for the current
\* ticket, and the call pushed one event, a vote-cast with that ticket, user
\* and value.
C14_ValidVoteAccepted ==
  \A r \in ReqSlots :
    ( /\ req[r].op = "SubmitVote" /\ req[r].pc = "done"
      /\ req[r].vote \in validVotes \cap AllVotingCards
      /\ VotingOrReviewing(req[r].sess) )
    => LET t == IdOf(GetSessionByID(req[r].sess).current) IN
         /\ req[r].status = 200
         /\ {v.value : v \in {x \in dbVotes : x.tid = t /\ x.user = req[r].user}}
              = {req[r].vote}
         /\ Cardinality(EventsOf(r)) = 1
         /\ \A j \in EventsOf(r) :
              /\ events[j].type = "vote-cast" /\ events[j].tid = t
              /\ events[j].user = req[r].user /\ events[j].vote = req[r].vote

\* A vote submitted after end-voting (Reviewing) was answered 200 and replaced
\* the user's vote of the round.
C14_Witness ==
  \E r \in ReqSlots :
    /\ req[r].op = "SubmitVote" /\ req[r].pc = "done" /\ req[r].status = 200
    /\ VotingOrReviewing(req[r].sess)
    /\ ~ dbSessions[req[r].sess].voting
    /\ \E j \in 1..Len(events) :
         /\ events[j].type = "voting-ended" /\ events[j].tid = req[r].tid
         /\ \E v \in events[j].votes : v.user = req[r].user /\ v.value # req[r].vote

\* ------------------------------------------------------------------- C15
\* The stored votes of user u for ticket t.
RowsFor(t, u) == {v \in dbVotes : v.tid = t /\ v.user = u}

\* C15: at every moment the votes table holds at most one row per (ticket,
\* user); a successful submission leaves exactly its own value as the row of
\* its ticket and user, and no other step changes the row of a pair except by
\* deleting it.
C15_OneVotePerUser ==
  /\ [](\A v, w \in dbVotes : (v.tid = w.tid /\ v.user = w.user) => v = w)
  /\ [][\A r \in ReqSlots :
          (SvcSubmitVote(r) /\ req[r].tid \in DOMAIN dbTickets)
            => {v \in dbVotes' : v.tid = req[r].tid /\ v.user = req[r].user}
                 = {[tid |-> req[r].tid, user |-> req[r].user, value |-> req[r].vote]}]_vars
  /\ [][\A t \in TicketArgs, u \in Users :
          {v \in dbVotes' : v.tid = t /\ v.user = u} # RowsFor(t, u)
            => \/ {v \in dbVotes' : v.tid = t /\ v.user = u} = {}
               \/ \E r \in ReqSlots :
                    SvcSubmitVote(r) /\ req[r].tid = t /\ req[r].user = u]_vars

\* A user submitted two different values for one ticket, both were announced,
\* and the table holds one row for the pair.
C15_Witness ==
  \E i, j \in 1..Len(events) :
    /\ i < j
    /\ events[i].type = "vote-cast" /\ events[j].type = "vote-cast"
    /\ events[i].tid = events[j].tid /\ events[i].user = events[j].user
    /\ events[i].vote # events[j].vote
    /\ Cardinality(RowsFor(events[j].tid, events[j].user)) = 1

\* ------------------------------------------------------------------- C16
\* C16: every stored session has at most one current ticket, and while its
\* voting flag is set its current ticket is a ticket of the session that
\* exists.
C16_VotingHasCurrentTicket ==
  \A s \in DOMAIN dbSessions :
    /\ Cardinality(dbSessions[s].cur) <= 1
    /\ dbSessions[s].voting => GetSessionByID(s).current # {}

\* ------------------------------------------------------------------- C17
\* The state change of the operation of the call in slot r is in the database.
Applied(r) ==
  LET s == req[r].sess
      t == req[r].tid
  IN CASE req[r].op = "StartVoting" ->
            /\ s \in DOMAIN dbSessions /\ dbSessions[s].voting /\ dbSessions[s].cur = {t}
            /\ \A u \in Users : RowsFor(t, u) = {}
       [] req[r].op = "EndVoting" ->
            s \in DOMAIN dbSessions /\ ~ dbSessions[s].voting
       [] req[r].op \in {"NextTicket", "SelectTicket"} ->
            /\ s \in DOMAIN dbSessions /\ ~ dbSessions[s].voting
            /\ dbSessions[s].cur = req[r].session.cur
       [] req[r].op = "CreateTicket" -> t \in TicketsOf(s)
       [] req[r].op = "DeleteTicket" -> t \notin DOMAIN dbTickets
       [] req[r].op = "UpdateTicket" ->
            t \in DOMAIN dbTickets /\ dbTickets[t].title = req[r].ticket.title
       [] req[r].op = "SubmitVote" ->
            RowsFor(t, req[r].user) = {[tid |-> t, user |-> req[r].user, value |-> req[r].vote]}
       [] req[r].op = "DeleteSession" -> s \notin DOMAIN dbSessions
       [] req[r].op = "ReviewSession" -> s \in DOMAIN dbSessions
       [] OTHER -> FALSE

\* C17: with one request at a time, a handler calls Broadcast only when the
\* state change of its operation is in the database, session deletion
\* included, and a call answered with a server error has pushed no event.
C17_EventAfterStorage ==
  /\ [][\A r \in ReqSlots : BroadcastEvent(r) => Applied(r)]_vars
  /\ [](\A r \in ReqSlots :
          (req[r].pc = "done" /\ req[r].status >= 500) => EventsOf(r) = {})

\* ------------------------------------------------------------------- C18
\* The operations that broadcast on success, and the answers of success.
BroadcastOps == {"StartVoting", "EndVoting", "NextTicket", "SelectTicket", "SubmitVote",
                 "CreateTicket", "UpdateTicket", "DeleteTicket"}
Succeeded(r) == req[r].pc = "done" /\ req[r].status \in {200, 303}

\* C18: every call of start-voting, end-voting, advance, select-ticket,
\* submit-vote or ticket create / update / delete that was answered with
\* success has made exactly one Broadcast call, and no call makes more than
\* one.
C18_OneBroadcastPerSuccess ==
  \A r \in ReqSlots :
    req[r].op \in BroadcastOps =>
      /\ Succeeded(r) => Cardinality(EventsOf(r)) = 1
      /\ Cardinality(EventsOf(r)) <= 1

\* Two calls that were in flight together, a start-voting and a ticket
\* deletion, both succeeded, and the log holds one event of each.
C18_Witness ==
  \E r1, r2 \in ReqSlots :
    /\ req[r1].op = "StartVoting" /\ req[r2].op = "DeleteTicket"
    /\ Succeeded(r1) /\ Succeeded(r2) /\ req[r1].conc /\ req[r2].conc
    /\ Len(events) = 2
    /\ \E j \in EventsOf(r1) : events[j].type = "voting-started"
    /\ \E j \in EventsOf(r2) : events[j].type = "ticket-deleted"

\* ------------------------------------------------------------------- C19
\* The call in slot r is a start-voting or end-voting by the owner of a
\* session that has no current ticket.
NoTicketTransition(r) ==
  /\ req[r].op \in {"StartVoting", "EndVoting"}
  /\ req[r].sess \in DOMAIN dbSessions
  /\ req[r].user = dbSessions[req[r].sess].owner
  /\ GetSessionByID(req[r].sess).current = {}

\* C19: with one request at a time, a start-voting or end-voting call of the
\* owner on a session without current ticket changes neither the current
\* ticket nor the voting flag, pushes no event, and is answered with a
\* rejection (a 4xx status), not by the recovery from a panic (500).
C19_InvalidTransitionRejected ==
  /\ [][\A r \in ReqSlots :
          (NoTicketTransition(r) /\ HandlerStep(r)) => UNCHANGED <<dbSessions, events>>]_vars
  /\ [](\A r \in ReqSlots :
          (NoTicketTransition(r) /\ req[r].pc = "done")
            => req[r].status \in 400..499 /\ EventsOf(r) = {})

\* ------------------------------------------------------------------- C20
\* The mutating operations of the claim.
LinOps == {"SelectTicket", "NextTicket", "StartVoting", "EndVoting", "SubmitVote",
           "DeleteTicket"}

\* getSessionTickets on the tables db: the tickets of session sid in position
\* order (rows of equal position in id order).
RECURSIVE OrderIn(_, _)
OrderIn(db, T) ==
  IF T = {} THEN <<>>
  ELSE LET t == CHOOSE x \in T : \A y \in T :
                  \/ db.tickets[x].pos < db.tickets[y].pos
                  \/ db.tickets[x].pos = db.tickets[y].pos /\ x <= y
       IN <<t>> \o OrderIn(db, T \ {t})

\* GetSessionByID on the tables db.
SessionIn(db, sid) ==
  IF sid \notin DOMAIN db.sessions THEN NoSession
  ELSE LET row == db.sessions[sid]
           ts  == OrderIn(db, {t \in DOMAIN db.tickets : db.tickets[t].sess = sid})
       IN [owner |-> row.owner, cur |-> row.cur, voting |-> row.voting, tickets |-> ts,
           current |-> row.cur \cap {ts[i] : i \in 1..Len(ts)}]

\* UpdateSession on the tables db.
WithSession(db, sid, cur, voting) ==
  [db EXCEPT !.sessions[sid].cur = cur, !.sessions[sid].voting = voting]

\* The tables after the handler of call c has run alone, from its first
\* statement to its response, on the tables db.
Alone(c, db) ==
  LET session == SessionIn(db, c.sess)
      ts == session.tickets
      t == IdOf(session.current)
  IN
    IF session = NoSession THEN db
    ELSE IF c.op = "SubmitVote" THEN
      IF c.vote \in validVotes \cap AllVotingCards /\ session.current # {}
        THEN [db EXCEPT !.votes = InsertOrReplace(@, [tid |-> t, user |-> c.user,
                                                      value |-> c.vote])]
        ELSE db
    ELSE IF ~ IsOwner(session, c.user) THEN db
    ELSE IF c.op = "StartVoting" THEN
      IF session.current = {} THEN db
      ELSE [WithSession(db, c.sess, session.cur, TRUE)
              EXCEPT !.votes = {v \in @ : v.tid \notin session.current}]
    ELSE IF c.op = "EndVoting" THEN WithSession(db, c.sess, session.cur, FALSE)
    ELSE IF c.op = "NextTicket" THEN WithSession(db, c.sess, FindNext(session), FALSE)
    ELSE IF c.op = "SelectTicket" THEN
      IF c.tid \in {ts[i] : i \in 1..Len(ts)}
        THEN WithSession(db, c.sess, {c.tid}, FALSE) ELSE db
    ELSE IF c.op = "DeleteTicket" THEN
      IF c.tid \notin DOMAIN db.tickets \/ db.tickets[c.tid].sess # c.sess THEN db
      ELSE LET d == IF session.cur = {c.tid} THEN WithSession(db, c.sess, {}, FALSE) ELSE db
               old == db.tickets[c.tid]
           IN [d EXCEPT
                 !.tickets = [x \in DOMAIN db.tickets \ {c.tid} |->
                                IF db.tickets[x].sess = old.sess /\ db.tickets[x].pos > old.pos
                                  THEN [db.tickets[x] EXCEPT !.pos = @ - 1]
                                  ELSE db.tickets[x]],
                 !.votes = {v \in @ : v.tid # c.tid}]
    ELSE db

\* The tables after the calls of the sequence p (indices into calls) have run
\* one after another on the tables db.
RECURSIVE InOrder(_, _)
InOrder(p, db) ==
  IF p = <<>> THEN db ELSE InOrder(Tail(p), Alone(calls[Head(p)], db))

\* The orders of the calls in which no call comes before a call that had been
\* answered when it arrived.
Orders ==
  {p \in [1..Len(calls) -> 1..Len(calls)] :
     /\ \A i, j \in 1..Len(calls) : i # j => p[i] # p[j]
     /\ \A i, j \in 1..Len(calls) : p[i] \in calls[p[j]].after => i < j}

\* The tables as they are now.
Tables == [sessions |-> dbSessions, tickets |-> dbTickets, votes |-> dbVotes]

\* The run has calls, all are of the mutating operations and all have been
\* answered.
Quiescent ==
  /\ calls # <<>>
  /\ \A i \in 1..Len(calls) : calls[i].op \in LinOps
  /\ \A r \in ReqSlots : ~ InFlight(r)

\* C20: when all calls of select, advance, start-voting, end-voting,
\* submit-vote and delete-ticket on a session have been answered, the tables
\* are those that the calls produce when run one after another in some order
\* that keeps every call after the calls answered before its arrival.
C20_Linearizable ==
  Quiescent => \E p \in Orders : InOrder(p, db0) = Tables

\* ---------------------------------------------------------------- C21
\* The ticket-changed events of session s in the log, in the order in which
\* they were handed to Broadcast (the order in which every connection of the
\* session is pushed them, C4).
TicketChanges(s) ==
  {j \in 1..Len(events) : events[j].sess = s /\ events[j].type = "ticket-changed"}

\* The last element of a non-empty set of log positions.
Latest(J) == CHOOSE j \in J : \A k \in J : k <= j

\* The requests made so far are all answered ticket selections (select-ticket
\* or next-ticket) of session s that succeeded.
OnlyTicketSelections(s) ==
  /\ nreq >= 2
  /\ \A n \in 1..nreq : \E r \in ReqSlots :
       /\ req[r].id = n /\ req[r].pc = "done" /\ req[r].status = 303
       /\ req[r].op \in {"SelectTicket", "NextTicket"} /\ req[r].sess = s

\* C21: the events of a session are pushed in the order in which their
\* mutations were applied to storage: after ticket selections of a session,
\* concurrent or not, the last ticket-changed event carries the current
\* ticket that storage holds.
C21_EventOrderIsStorageOrder ==
  \A s \in DOMAIN dbSessions :
    OnlyTicketSelections(s)
      => events[Latest(TicketChanges(s))].tid = IdOf(dbSessions[s].cur)

\* ---------------------------------------------------------------- C22
\* What storage holds of session s: its row, its tickets and their votes.
StoredOf(s) ==
  [row     |-> IF s \in DOMAIN dbSessions THEN {dbSessions[s]} ELSE {},
   tickets |-> {<<t, dbTickets[t]>> : t \in TicketsOf(s)},
   votes   |-> {v \in dbVotes : v.tid \in TicketsOf(s)}]

\* The events of the log that are addressed to the connections of session s.
EventsFor(s) == {j \in 1..Len(events) : events[j].sess = s}

\* C22: a step of a request on session S leaves the row (current ticket,
\* voting flag), the tickets and the votes of every other session as they
\* were, and hands Broadcast no event for another session.
C22_OtherSessionsUntouched ==
  [][\A r \in ReqSlots : HandlerStep(r) =>
       \A s \in Sessions \ {req[r].sess} :
         /\ StoredOf(s)' = StoredOf(s)
         /\ EventsFor(s)' = EventsFor(s)]_vars

\* The owner of s1 asked to delete and to change the ticket of s2 through
\* s1; both requests were refused and another request on s1 has changed
\* what storage holds of s1, while s2 holds its ticket and its vote.
C22_Witness ==
  /\ \E r \in ReqSlots :
       /\ req[r].op \in {"DeleteTicket", "UpdateTicket"} /\ req[r].sess = "s1"
       /\ req[r].tid = 2 /\ req[r].user = "u1"
       /\ req[r].pc = "done" /\ req[r].status = 400
  /\ StoredOf("s1") # [row |-> {db0.sessions["s1"]},
                       tickets |-> {<<1, db0.tickets[1]>>}, votes |-> {}]
  /\ StoredOf("s2").tickets # {} /\ StoredOf("s2").votes # {}

\* ---------------------------------------------------------------- C23
\* The handler of connection c has returned: HandleSSE has returned (after
\* its loop or at "Streaming unsupported"); readPump has returned and its
\* deferred unregister has been taken by the hub.
HandlerReturned(c) == rp[c] \in {"done", "gone", "nostream"}

\* C23: once the handler of a connection has returned, on whatever path, the
\* registry does not contain the connection.
C23_ReturnedIsUnregistered ==
  \A c \in ConnIds : HandlerReturned(c) => c \notin Registered

\* ---------------------------------------------------------------- C24
\* The socket of WebSocket connection c is closed, readPump has returned and
\* the hub is through with its unregister case for c, while writePump waits
\* on client.Send, which is empty, open and no longer reachable through the
\* registry: nothing can be sent on it or close it any more.
SendLoopBlocked(c) ==
  /\ svc = "ws" /\ fault = "none"
  /\ rp[c] = "done" /\ wp[c] = "run"
  /\ it[Hub].pc = "unregister" => c \notin it[Hub].cur
  /\ queue[c] = <<>> /\ c \notin closed /\ c \notin Registered

\* C24: after the transport of a connection is closed both its loops end,
\* also when the same user registered a second connection for the same
\* session in the meantime: no connection is left with its receive loop
\* ended and its send loop waiting on a channel that can never be written
\* or closed.
C24_BothLoopsEnd ==
  \A c \in ConnIds : ~ SendLoopBlocked(c)

\* ---------------------------------------------------------------- C25
\* The owner's next-ticket request in slot r is about to run on a session
\* whose current ticket is the i-th of its tickets and has a successor.
AdvancesFrom(r, i) ==
  LET session == GetSessionByID(req[r].sess) IN
    /\ req[r].op = "NextTicket" /\ req[r].pc = "got"
    /\ session # NoSession /\ req[r].user = session.owner
    /\ i + 1 <= Len(session.tickets)
    /\ session.current = {session.tickets[i]}

\* C25: when the owner advances from ticket T1 to its successor T2 the
\* handler goes on with T2; a next-ticket request that was answered 303
\* has left its ticket as the stored current ticket with voting inactive
\* and has broadcast one ticket-changed event carrying that ticket; and no
\* step of a next-ticket request changes a stored vote.
C25_NextTicketAdvances ==
  /\ [][\A r \in ReqSlots : \A i \in 1..MaxTickets :
          (AdvancesFrom(r, i) /\ NextTicket(r)) =>
            LET T2 == GetSessionByID(req[r].sess).tickets[i + 1] IN
              /\ req'[r].pc = "run" /\ req'[r].tid = T2
              /\ req'[r].session.cur = {T2} /\ ~ req'[r].session.voting]_vars
  /\ [](\A r \in ReqSlots :
          (req[r].op = "NextTicket" /\ req[r].pc = "done" /\ req[r].status = 303) =>
            /\ IdOf(dbSessions[req[r].sess].cur) = req[r].tid
            /\ ~ dbSessions[req[r].sess].voting
            /\ Cardinality(EventsOf(r)) = 1
            /\ \A j \in EventsOf(r) :
                 /\ events[j].type = "ticket-changed" /\ events[j].tid = req[r].tid
                 /\ events[j].sess = req[r].sess)
  /\ [][\A r \in ReqSlots :
          (req[r].op = "NextTicket" /\ HandlerStep(r)) => dbVotes' = dbVotes]_vars

\* The owner has advanced from the first ticket of s1, on which a vote is
\* stored, to the second: the second is current and was announced.
C25_Witness ==
  \E r \in ReqSlots :
    LET ts == OrderByPosition(TicketsOf("s1")) IN
      /\ req[r].op = "NextTicket" /\ req[r].pc = "done" /\ req[r].status = 303
      /\ Len(ts) >= 2 /\ req[r].tid = ts[2]
      /\ dbSessions["s1"].cur = {ts[2]}
      /\ \E v \in dbVotes : v.tid = ts[1]
      /\ \E j \in EventsOf(r) : events[j].tid = ts[2]

\* ---------------------------------------------------------------- C26
\* The vote-cast events of user u for ticket t in the log.
CastsOf(t, u) ==
  {k \in 1..Len(events) :
     events[k].type = "vote-cast" /\ events[k].tid = t /\ events[k].user = u}

\* C26: with one request at a time, the voting-ended event that an
\* end-voting request broadcasts carries the current ticket of the session
\* and exactly the votes that storage holds for that ticket at that moment,
\* as its list of votes and inside its ticket: one entry per user, with the
\* value of the user's latest vote.
C26_VotingEndedCarriesStoredVotes ==
  [][\A r \in ReqSlots : (req[r].op = "EndVoting" /\ BroadcastEvent(r)) =>
       LET e == events'[Len(events')] IN
         /\ Len(events') = Len(events) + 1
         /\ e.type = "voting-ended" /\ e.sess = req[r].sess
         /\ e.tid # 0 /\ {e.tid} = dbSessions[req[r].sess].cur
         /\ \A u \in Users, v \in AllVotingCards :
              [user |-> u, value |-> v] \in e.votes
                <=> [tid |-> e.tid, user |-> u, value |-> v] \in dbVotes
         /\ e.tvotes = e.votes
         /\ \A x, y \in e.votes : x.user = y.user => x = y
         /\ \A x \in e.votes :
              /\ CastsOf(e.tid, x.user) # {}
              /\ events[Latest(CastsOf(e.tid, x.user))].vote = x.value]_vars

\* An end-voting was answered after u1 had voted 5 and u2 had voted 8 on the
\* current ticket, and its event carries these two votes.
C26_Witness ==
  \E r \in ReqSlots : \E j \in EventsOf(r) :
    /\ req[r].op = "EndVoting" /\ req[r].pc = "done" /\ req[r].status = 303
    /\ events[j].type = "voting-ended"
    /\ events[j].votes = {[user |-> "u1", value |-> "5"], [user |-> "u2", value |-> "8"]}

\* ---------------------------------------------------------------- C27
\* Variant: a count of the users that have an entry of the session.
GetClientCountByUser(s) ==
  Cardinality({conns[clients[k]].user : k \in {x \in DOMAIN clients : conns[clients[x]].sess = s}})

\* GetClientCount(sessionID): the number of entries of the registry map
\* whose client has that SessionID (under the read lock).
GetClientCount(s) ==
  Cardinality({k \in DOMAIN clients : conns[clients[k]].sess = s})

\* C27: the connection count of a session is the number of connections that
\* are registered for it, each connection of a user counted on its own.
C27_CountIsRegistered ==
  \A s \in Sessions :
    GetClientCount(s) = Cardinality({c \in Registered : conns[c].sess = s})

\* Two connections of one user are registered for a session, and its count
\* is 2.
C27_Witness ==
  \E c, d \in Registered :
    /\ c # d /\ SameOwner(c, d)
    /\ GetClientCount(conns[c].sess) = 2

\* ---------------------------------------------------------------- C28
\* What a connection writes for the j-th event when it takes it from its
\* queue now. Data holds pointers to objects of the handler that made the
\* call (session.CurrentTicket, the votes slice, the vote): while that
\* request is in a slot the content is read from its objects; afterwards no
\* running code refers to them.
Payload(j) ==
  LET R == {r \in ReqSlots : req[r].id = events[j].rid} IN
    IF R = {} THEN events[j] ELSE Message(CHOOSE r \in R : TRUE)

\* C28: an event is a snapshot taken when it is handed to Broadcast: no
\* later step, of its own handler or of another request, changes what it
\* carries, and no step removes or reorders an event handed over earlier.
C28_EventIsSnapshot ==
  /\ [](\A j \in 1..Len(events) : Payload(j) = events[j])
  /\ [][/\ Len(events') >= Len(events)
        /\ \A j \in 1..Len(events) : events'[j] = events[j]]_vars

\* A vote-cast event was handed to Broadcast, its request is still in its
\* slot, and the stored vote of that user for the ticket has been replaced
\* or removed since: the event still carries the vote as it was cast.
C28_Witness ==
  \E r \in ReqSlots : \E j \in EventsOf(r) :
    /\ req[r].pc = "done" /\ events[j].type = "vote-cast"
    /\ [tid |-> events[j].tid, user |-> events[j].user, value |-> events[j].vote] \notin dbVotes
    /\ Payload(j).vote = req[r].vote

\* ---------------------------------------------------------------- C29
\* C29: the registry of the WebSocket hub never holds two connections of
\* one session and user, and the register case puts the new connection in
\* the place of the registered connection of the same session and user, if
\* there is one, leaving every other entry.
C29_OnePerUserAndSession ==
  /\ [](svc = "ws" => \A c, d \in Registered : SameOwner(c, d) => c = d)
  /\ [][\A c \in ConnIds : WSRegister(c) =>
          Registered' = (Registered \ {d \in Registered : SameOwner(c, d)}) \cup {c}]_vars

\* A user's second connection to a session has taken the place of the first
\* in the registry; the first is still open and its pumps are running.
C29_Witness ==
  /\ svc = "ws"
  /\ \E c, d \in ConnIds :
       /\ c # d /\ SameOwner(c, d)
       /\ d \in Registered /\ c \notin Registered
       /\ rp[c] = "run" /\ wp[c] = "run" /\ c \notin closed

\* ------------------------------------------------------ joining and leaving
\* Handler.JoinSession, Handler.GetSession and Handler.LeaveSession over
\* SessionService.JoinSession and LeaveSession, one storage statement a step.

MaxJoins == 3
JoinOps == {"JoinSession", "GetSession", "LeaveSession"}

\* Variant: a participants table without its primary key.
NoPrimaryKey(s, u) == TRUE

\* PRIMARY KEY (session_id, user_id) of participants: an INSERT of a row that
\* is there fails.
PrimaryKeyFree(s, u) == <<s, u>> \notin dbParticipants

\* The handler up to its call of the session service: GetSession has read
\* the session with GetSessionByID (GetSessionRow and the steps after it) and
\* answers 404 without it; JoinSession and LeaveSession do not look it up.
JoinEnter(r) ==
  /\ req[r].op \in JoinOps
  /\ req[r].pc = IF req[r].op = "GetSession" THEN "got" ELSE "get"
  /\ req[r].todo = <<>>
  /\ IF req[r].op = "GetSession" /\ req[r].session = NoSession
       THEN Reply(r, 404)
     ELSE IF req[r].op = "LeaveSession"
       THEN Continue(r, NoSession, 0, <<"LeaveSession", "Broadcast">>, "user-left")
     ELSE Continue(r, NoSession, 0, <<"JoinCount">>, "-")
  /\ UNCHANGED <<hubVars, connVars, db0, calls, dbSessions, dbTickets, dbVotes, ticketSeq,
                 nreq, events>>

\* SessionService.JoinSession, SELECT COUNT(*): with the row there it returns
\* (false, nil) and the handler goes on without a Broadcast: JoinSession
\* redirects, GetSession reads the session again.
JoinCount(r) ==
  /\ AtCall(r, "JoinCount")
  /\ IF <<req[r].sess, req[r].user>> \notin dbParticipants
       THEN req' = [req EXCEPT ![r].todo = <<"JoinInsert">>]
     ELSE IF req[r].op = "GetSession"
       THEN req' = [req EXCEPT ![r].todo = <<"Refresh">>]
     ELSE Reply(r, 303)
  /\ UNCHANGED <<hubVars, connVars, db0, calls, dbSessions, dbTickets, dbVotes, ticketSeq,
                 nreq, events>>

\* SessionService.JoinSession, INSERT INTO participants: an error (the row is
\* there, or session_id REFERENCES sessions(id) finds no session) is answered
\* 500 by the handler; else userJoined is true and the Broadcast of
\* user-joined follows, and in GetSession the second read of the session.
JoinInsert(r) ==
  /\ AtCall(r, "JoinInsert")
  /\ IF req[r].sess \in DOMAIN dbSessions /\ PrimaryKeyFree(req[r].sess, req[r].user)
       THEN /\ dbParticipants' = dbParticipants \cup {<<req[r].sess, req[r].user>>}
            /\ req' = [req EXCEPT ![r].evt = "user-joined",
                                    ![r].todo = IF req[r].op = "GetSession"
                                                  THEN <<"Broadcast", "Refresh">>
                                                  ELSE <<"Broadcast">>]
       ELSE /\ Reply(r, 500)
            /\ UNCHANGED dbParticipants
  /\ UNCHANGED <<hubVars, refused, connecting, db0, calls, dbSessions, dbTickets, dbVotes,
                 ticketSeq, nreq, events>>

\* Handler.GetSession, session, err = GetSessionByID(sessionID) after the
\* join, first statement: SELECT ... FROM sessions WHERE id = ?. Without a
\* row GetSessionByID returns (nil, nil), the handler tests err only, and its
\* range over session.Tickets dereferences nil: the panic is recovered by
\* RecoverFromPanic, which answers 500. With the row the read goes on
\* (GetSessionTickets and the steps after it).
GetSessionRefresh(r) ==
  /\ AtCall(r, "Refresh") /\ req[r].op = "GetSession"
  /\ IF req[r].sess \notin DOMAIN dbSessions
       THEN Reply(r, 500)
       ELSE req' = [req EXCEPT ![r].pc = "tickets",
                               ![r].session = [NoSession EXCEPT
                                  !.owner = dbSessions[req[r].sess].owner,
                                  !.cur = dbSessions[req[r].sess].cur,
                                  !.voting = dbSessions[req[r].sess].voting]]
  /\ UNCHANGED <<hubVars, connVars, db0, calls, dbSessions, dbTickets, dbVotes, ticketSeq,
                 nreq, events>>

\* Handler.GetSession after its second read: the page is rendered from the
\* session read (executeTemplate, status 200).
GetSessionRender(r) ==
  /\ req[r].pc = "got" /\ req[r].op = "GetSession" /\ req[r].todo = <<"Refresh">>
  /\ Reply(r, 200)
  /\ UNCHANGED <<hubVars, connVars, db0, calls, dbSessions, dbTickets, dbVotes, ticketSeq,
                 nreq, events>>

\* SessionService.LeaveSession called by Handler.LeaveSession: the DELETE
\* succeeds with or without the row.
LeaveSession(r) ==
  /\ AtCall(r, "LeaveSession")
  /\ dbParticipants' = dbParticipants \ {<<req[r].sess, req[r].user>>}
  /\ Returned(r)
  /\ UNCHANGED <<hubVars, refused, connecting, db0, calls, dbSessions, dbTickets, dbVotes,
                 ticketSeq, nreq, events>>

\* Handler.CreateSession (the name of the form is valid) over
\* SessionService.CreateSession: one transaction inserts the sessions row,
\* under a new id (uuid.New(): here the id of Sessions that no row has), and
\* the participants row of the owner; the answer is 200 with the header
\* HX-Redirect, and nothing is broadcast.
CreateSession(r) ==
  /\ req[r].pc = "get" /\ req[r].op = "CreateSession"
  /\ Sessions \ DOMAIN dbSessions # {}
  /\ LET id == CHOOSE s \in Sessions \ DOMAIN dbSessions : TRUE IN
       /\ dbSessions' = [s \in DOMAIN dbSessions \cup {id} |->
                           IF s = id THEN [owner |-> req[r].user, cur |-> {}, voting |-> FALSE]
                           ELSE dbSessions[s]]
       /\ dbParticipants' = dbParticipants \cup {<<id, req[r].user>>}
       /\ req' = [req EXCEPT ![r] = [@ EXCEPT !.pc = "done", !.status = 200, !.sess = id]]
  /\ UNCHANGED <<hubVars, refused, connecting, db0, calls, dbTickets, dbVotes, ticketSeq,
                 nreq, events>>

\* A join, page or leave request of any user, for session s1 or for the
\* session that a CreateSession makes; or a CreateSession, while there is an
\* id left for its session.
JoinArrival(r) ==
  /\ nreq < MaxJoins
  /\ \/ \E op \in JoinOps, s \in Sessions, u \in Users : Arrive(r, op, s, u, 0, "-", FALSE)
     \/ /\ Sessions \ DOMAIN dbSessions # {}
        /\ \A x \in ReqSlots : ~ (InFlight(x) /\ req[x].op = "CreateSession")
        /\ \E u \in Users : Arrive(r, "CreateSession", "-", u, 0, "-", FALSE)
  /\ UNCHANGED calls

\* Session s1 of u1, its only participant; no tickets.
InitJoin ==
  /\ HubStart
  /\ svc = "ws"
  /\ dbSessions = [s \in {"s1"} |-> [owner |-> "u1", cur |-> {}, voting |-> FALSE]]
  /\ dbTickets = <<>>
  /\ dbVotes = {}
  /\ ticketSeq = 0
  /\ req = [r \in ReqSlots |-> Blank]
  /\ nreq = 0
  /\ events = <<>>
  /\ calls = <<>>
  /\ db0 = [sessions |-> dbSessions, tickets |-> dbTickets, votes |-> dbVotes]
  /\ dbParticipants = {<<"s1", "u1">>}
  /\ refused = {}
  /\ connecting = {}

\* Join, page and leave requests in two slots, their steps interleaved.
NextJoin ==
  \/ \E r \in ReqSlots : JoinArrival(r)
  \/ \E r \in ReqSlots : CreateSession(r)
  \/ \E r \in ReqSlots : GetSessionRow(r)
  \/ \E r \in ReqSlots : GetSessionTickets(r)
  \/ \E r \in ReqSlots : GetSessionRefresh(r)
  \/ \E r \in ReqSlots : GetSessionRender(r)
  \/ \E r \in ReqSlots : JoinEnter(r)
  \/ \E r \in ReqSlots : JoinCount(r)
  \/ \E r \in ReqSlots : JoinInsert(r)
  \/ \E r \in ReqSlots : LeaveSession(r)
  \/ \E r \in ReqSlots : BroadcastEvent(r)
  \/ \E r \in ReqSlots : Respond(r)

SpecJoin == InitJoin /\ [][NextJoin]_vars

\* ------------------------------------------------- connecting to a session
\* SessionService.getSessionParticipants: the users with a participants row
\* of the session.
getSessionParticipants(sid) == {x[2] : x \in {y \in dbParticipants : y[1] = sid}}

\* Variant: a connection handler without the participant test.
AnyUser(sid, user) == TRUE

\* The loop over session.Participants: participant.ID == user.ID for one of
\* them.
IsParticipant(sid, user) == user \in getSessionParticipants(sid)

\* Connection requests whose handler is between its read of the session and
\* its registration at one time.
MaxConnecting == 1
\* Connections made through Handler.SSEHandler in one run.
MaxConnects == 1

\* A visitor without the session cookie: SessionMiddleware puts no user into
\* the context of the request.
NoUser == "-"

\* http.Error(w, ..., code) of a connection handler, which then returns.
Refuse(s, u, code) ==
  /\ refused' = refused \cup {[sess |-> s, user |-> u, code |-> code]}
  /\ UNCHANGED <<hubVars, dbParticipants, reqVars>>

\* Handler.SSEHandler from its entry to the first statement of
\* GetSessionByID: 401 without a user; else SELECT ... FROM sessions WHERE
\* id = ?. Without a row GetSessionByID returns nil (pc "read", found FALSE);
\* with one it goes on to getSessionParticipants (pc "row"). The handler takes
\* no lock and no transaction: the statements of other requests run before
\* it goes on.
SSEHandlerRead(s, u) ==
  /\ svc = "sse" /\ fault = "none"
  /\ IF u = NoUser THEN Refuse(s, u, 401) /\ UNCHANGED connecting
     ELSE /\ Cardinality(connecting) < MaxConnecting
          /\ Len(conns) + Cardinality(connecting) < MaxConnects
          /\ \A x \in connecting : x.sess # s \/ x.user # u
          /\ connecting' = connecting \cup
                {[sess |-> s, user |-> u, found |-> s \in DOMAIN dbSessions, part |-> FALSE,
                  pc |-> IF s \in DOMAIN dbSessions THEN "row" ELSE "read"]}
          /\ UNCHANGED <<hubVars, dbParticipants, refused, reqVars>>

\* GetSessionByID called by SSEHandler, second statement:
\* getSessionParticipants, the participants rows of this moment. The
\* statements that follow (tickets, votes) do not change what the handler
\* tests.
ReadParticipantsForConnect(s, u) ==
  /\ fault = "none"
  /\ \E x \in connecting :
       /\ x.sess = s /\ x.user = u /\ x.pc = "row"
       /\ connecting' = (connecting \ {x}) \cup
             {[x EXCEPT !.part = IsParticipant(s, u), !.pc = "read"]}
  /\ UNCHANGED <<hubVars, dbParticipants, refused, reqVars>>

\* GetSessionByID returns an error to SSEHandler (at its first statement, or
\* at getSessionParticipants when the row has been read): the handler
\* answers 500.
ConnectReadError(s, u) ==
  /\ fault = "none"
  /\ Refuse(s, u, 500)
  /\ connecting' = {x \in connecting : ~ (x.sess = s /\ x.user = u /\ x.pc = "row")}

\* Handler.SSEHandler after GetSessionByID: 404 without the session, 403 for
\* a user who was not among the participants read, else AddClient (HandleSSE
\* follows as SSEHandleStart).
SSEHandler(s, u) ==
  /\ svc = "sse" /\ fault = "none"
  /\ \E x \in connecting :
       /\ x.sess = s /\ x.user = u /\ x.pc = "read"
       /\ connecting' = connecting \ {x}
       /\ IF ~ x.found THEN Refuse(s, u, 404)
          ELSE IF ~ x.part THEN Refuse(s, u, 403)
          ELSE AddClient(s, u) /\ UNCHANGED <<dbParticipants, refused, reqVars>>

\* Session s1 of u1, who is its participant (CreateSession inserts the owner);
\* SSEService has no client.
InitConnect ==
  /\ svc = "sse"
  /\ HubStart
  /\ dbSessions = [s \in {"s1"} |-> [owner |-> "u1", cur |-> {}, voting |-> FALSE]]
  /\ dbTickets = (1 :> [sess |-> "s1", pos |-> 1, title |-> "old"])
  /\ dbVotes = {}
  /\ ticketSeq = 1
  /\ req = [r \in ReqSlots |-> Blank]
  /\ nreq = 0
  /\ events = <<>>
  /\ calls = <<>>
  /\ db0 = [sessions |-> dbSessions, tickets |-> dbTickets, votes |-> dbVotes]
  /\ dbParticipants = {<<"s1", "u1">>}
  /\ refused = {}
  /\ connecting = {}

\* The connection requests of a run: of every user and of a visitor without
\* a user, for the session of the calls (which is there until it is
\* deleted).
ConnectRequests == CallSessions \X (Users \cup {NoUser})

\* A join, page, leave or delete-session request of any user for the session
\* of the calls, while another request may be in flight.
ConnectArrival(r) ==
  /\ nreq < MaxReqs
  /\ \E s \in CallSessions, u \in Users :
       \E op \in JoinOps \cup {"DeleteSession"} : Arrive(r, op, s, u, 0, "-", FALSE)
  /\ UNCHANGED calls

\* Users join, leave and connect, the owner deletes the session, each
\* handler a statement at a time; connections are registered, lose their
\* transport and are unregistered. The Broadcast of the handlers goes to
\* WSService, which has no client here: nothing under src/ calls
\* HandleWebSocket.
NextConnect ==
  \/ \E x \in ConnectRequests : SSEHandlerRead(x[1], x[2])
  \/ \E s \in CallSessions, u \in Users : ReadParticipantsForConnect(s, u)
  \/ \E s \in CallSessions, u \in Users : ConnectReadError(s, u)
  \/ \E s \in CallSessions, u \in Users : SSEHandler(s, u)
  \/ \E c \in ConnIds : SSEHandleStart(c)
  \/ \E c \in ConnIds : SSEHandle(c)
  \/ \E c \in ConnIds : SSEHandleExit(c)
  \/ \E r \in ReqSlots : ConnectArrival(r)
  \/ \E r \in ReqSlots : JoinEnter(r)
  \/ \E r \in ReqSlots : JoinCount(r)
  \/ \E r \in ReqSlots : JoinInsert(r)
  \/ \E r \in ReqSlots : LeaveSession(r)
  \/ \E r \in ReqSlots : GetSessionRefresh(r)
  \/ \E r \in ReqSlots : GetSessionRender(r)
  \/ \E r \in ReqSlots : GetSessionRow(r)
  \/ \E r \in ReqSlots : GetSessionTickets(r)
  \/ \E r \in ReqSlots : GetTicketVotes(r)
  \/ \E r \in ReqSlots : DeleteSession(r)
  \/ \E r \in ReqSlots : SvcDeleteSession(r)
  \/ \E r \in ReqSlots : BroadcastEvent(r)
  \/ \E r \in ReqSlots : Respond(r)

SpecConnect == InitConnect /\ [][NextConnect]_vars

\* ---------------------------------------------------------------- C30
\* The request of s and u that SSEHandler goes on with in this step.
Connecting(s, u) == {x \in connecting : x.sess = s /\ x.user = u}

DocumentedDeck ==
  {"0", "1", "2", "3", "5", "8", "13", "21", "34", "55", "89", "144", "coffee", "?"}

\* C31: a submit-vote for a session with a current ticket is answered 200
\* and stored when its value is a card of the documented deck, and every
\* value outside the deck is rejected without storing a vote.
C31_DeckAccepted ==
  \A r \in ReqSlots :
    (req[r].op = "SubmitVote" /\ req[r].pc = "done" /\ req[r].sess \in DOMAIN dbSessions) =>
      LET session == GetSessionByID(req[r].sess) IN
        /\ (req[r].vote \in DocumentedDeck /\ session.current # {}) =>
             /\ req[r].status = 200
             /\ [tid |-> IdOf(session.current), user |-> req[r].user,
                 value |-> req[r].vote] \in dbVotes
        /\ req[r].vote \notin DocumentedDeck =>
             /\ req[r].status = 400
             /\ \A v \in dbVotes : v.value # req[r].vote

\* ---------------------------------------------------------------- C32
\* A step in which a Broadcast or SendToUser finds the queue of c full.
FoundFull(c) == \E i \in Iters : c \notin it[i].full /\ c \in it'[i].full

\* C32: in the WebSocket hub a connection found full is removed from the
\* registry and its queue is closed; nothing is pushed onto a closed queue
\* afterwards; and the unregister that its own readPump sends later changes
\* neither the registry nor any queue and raises no error.
C32_FullConnectionDropped ==
  /\ [][svc = "ws" => \A c \in ConnIds :
          FoundFull(c) => c \notin Registered' /\ c \in closed']_vars
  /\ [][\A c \in closed : pushed'[c] = pushed[c] /\ c \in closed']_vars
  /\ [][\A c \in ConnIds : (WSUnregister(c) /\ c \in closed) =>
          clients' = clients /\ closed' = closed /\ fault' = fault]_vars

\* ---------------------------------------------------------------- C33
\* The user-joined events among events 1..n made by request id.
JoinedBy(id, n) == {j \in 1..n : events[j].type = "user-joined" /\ events[j].rid = id}

\* C33: a request is given userJoined = true only by the step that inserts
\* its user's participant row, which was not there before the step; and a
\* user-joined event is broadcast only by such a request, for its user and
\* session, once per request. So sequential or concurrent joins of one user
\* emit at most one user-joined event per insertion of the row.
C33_JoinedOncePerInsert ==
  /\ [][\A r \in ReqSlots :
          (req'[r].evt = "user-joined" /\ (req[r].evt # "user-joined" \/ req[r].id # req'[r].id)) =>
            /\ req'[r].id = req[r].id
            /\ <<req[r].sess, req[r].user>> \notin dbParticipants
            /\ <<req[r].sess, req[r].user>> \in dbParticipants']_vars
  /\ [][\A j \in (Len(events) + 1)..Len(events') :
          events'[j].type = "user-joined" =>
            /\ Len(events') = Len(events) + 1
            /\ JoinedBy(events'[j].rid, Len(events)) = {}
            /\ \E r \in ReqSlots :
                 /\ req[r].id = events'[j].rid /\ req[r].evt = "user-joined"
                 /\ events'[j].user = req[r].user /\ events'[j].sess = req[r].sess]_vars

\* Two joins of one user ran together: both found no row, one inserted it and
\* broadcast user-joined, the other was answered 500; one event was emitted.
C33_Witness ==
  \E r1, r2 \in ReqSlots :
    /\ r1 # r2 /\ req[r1].user = req[r2].user
    /\ req[r1].op \in {"JoinSession", "GetSession"} /\ req[r1].pc = "done" /\ req[r1].status = 500
    /\ req[r2].op \in {"JoinSession", "GetSession"} /\ req[r2].pc = "done"
    /\ req[r2].evt = "user-joined" /\ req[r2].status \in {200, 303}
    /\ Cardinality({j \in 1..Len(events) : events[j].type = "user-joined"
                                            /\ events[j].user = req[r1].user}) = 1

\* ---------------------------------------------------------------- C34
\* C34: in every state the stored current-ticket id of every session is
\* null or the id of a ticket that exists and belongs to that session.
C34_CurrentTicketExists ==
  \A s \in DOMAIN dbSessions :
    \A t \in dbSessions[s].cur : t \in DOMAIN dbTickets /\ dbTickets[t].sess = s

\* ---------------------------------------------------------------- C35
\* C35: with one request at a time, a delete-ticket of the owner for the
\* session's current ticket writes the session back to Idle (no current
\* ticket, voting flag false) while the ticket still exists; the step that
\* removes a ticket never finds it current and leaves the sessions alone; a
\* delete-ticket for a ticket that is not current changes no session row;
\* and a delete-ticket answered 303 has removed the ticket and pushed exactly
\* one event, a ticket-deleted for that ticket.
C35_DeleteCurrentGoesIdle ==
  /\ [][\A r \in ReqSlots :
          (req[r].op = "DeleteTicket" /\ UpdateSession(r)) =>
            /\ dbSessions[req[r].sess].cur = {req[r].tid}
            /\ req[r].tid \in DOMAIN dbTickets'
            /\ dbSessions'[req[r].sess].cur = {} /\ ~ dbSessions'[req[r].sess].voting]_vars
  /\ [][\A r \in ReqSlots :
          (req[r].op = "DeleteTicket" /\ SvcDeleteTicketTx(r)) =>
            /\ \A s \in DOMAIN dbSessions : dbSessions[s].cur # {req[r].tid}
            /\ UNCHANGED dbSessions]_vars
  /\ [][\A r \in ReqSlots :
          ( /\ req[r].op = "DeleteTicket" /\ InFlight(r)
            /\ req[r].sess \in DOMAIN dbSessions
            /\ dbSessions[req[r].sess].cur # {req[r].tid} ) => UNCHANGED dbSessions]_vars
  /\ [](\A r \in ReqSlots :
          (req[r].op = "DeleteTicket" /\ req[r].pc = "done" /\ req[r].status = 303) =>
            /\ req[r].tid \notin DOMAIN dbTickets
            /\ Cardinality(EventsOf(r)) = 1
            /\ \A j \in EventsOf(r) :
                 events[j].type = "ticket-deleted" /\ events[j].tid = req[r].tid)

\* The ticket under vote was deleted: the last event before the request is
\* its voting-started, the ticket is gone and the session is Idle.
C35_Witness ==
  \E r \in ReqSlots :
    /\ req[r].op = "DeleteTicket" /\ AtCall(r, "Broadcast")
    /\ req[r].tid \notin DOMAIN dbTickets
    /\ events # <<>>
    /\ events[Len(events)].type = "voting-started" /\ events[Len(events)].tid = req[r].tid
    /\ dbSessions[req[r].sess].cur = {} /\ ~ dbSessions[req[r].sess].voting

\* ---------------------------------------------------------------- C36
\* The operations that take a ticket id, and the handler in slot r before it
\* has looked the ticket up.
TicketIdOps == {"SelectTicket", "DeleteTicket", "UpdateTicket"}
Undecided(r) ==
  req[r].pc \in {"get", "tickets", "tvotes", "votes", "got"} \/ AtCall(r, "GetTicketByID")

\* The ticket id of the call in slot r names no ticket of the call's session.
ForeignTicket(r) ==
  req[r].tid \notin DOMAIN dbTickets \/ dbTickets[req[r].tid].sess # req[r].sess

\* C36: with one request at a time, a select-ticket, delete-ticket or
\* update-ticket call of the owner of its session with the id of a ticket
\* that does not exist or belongs to another session changes no session,
\* ticket or vote row, pushes no event, and ends with a 4xx answer.
C36_ForeignTicketRejected ==
  [][\A r \in ReqSlots :
       ( /\ req[r].op \in TicketIdOps /\ Undecided(r)
         /\ req[r].sess \in DOMAIN dbSessions
         /\ dbSessions[req[r].sess].owner = req[r].user
         /\ ForeignTicket(r) )
       => /\ UNCHANGED <<dbSessions, dbTickets, dbVotes, events>>
          /\ req'[r].id = req[r].id
          /\ \/ Undecided(r)'
             \/ req'[r].pc = "done" /\ req'[r].status \in 400..499]_vars

\* The owner of s1 asked to delete a ticket of another session and was
\* answered 400; the ticket is there.
C36_Witness ==
  \E r \in ReqSlots :
    /\ req[r].op = "DeleteTicket" /\ req[r].pc = "done" /\ req[r].status = 400
    /\ req[r].sess \in DOMAIN dbSessions /\ dbSessions[req[r].sess].owner = req[r].user
    /\ req[r].tid \in DOMAIN dbTickets /\ dbTickets[req[r].tid].sess # req[r].sess
    /\ EventsOf(r) = {}

\* ---------------------------------------------------------------- C37
\* Ticket t comes before ticket u in the rows of SELECT ... ORDER BY position
\* (rows of equal position in id order).
RowBefore(t, u) ==
  \/ dbTickets[t].pos < dbTickets[u].pos
  \/ dbTickets[t].pos = dbTickets[u].pos /\ t < u

\* The first of the tickets S in that order (one ticket, or none).
Lowest(S) == {t \in S : \A u \in S \ {t} : RowBefore(t, u)}

\* Where an advance of session s leads by the stored positions: to the
\* session's first ticket when current_ticket_id is null or names no ticket
\* of the session, else to the ticket that follows the current one; to none
\* when there is no such ticket.
NextByPosition(s) ==
  LET cur == dbSessions[s].cur \cap TicketsOf(s) IN
    IF cur = {} THEN Lowest(TicketsOf(s))
    ELSE Lowest({t \in TicketsOf(s) : \A c \in cur : RowBefore(c, t)})

\* C37: with one request at a time, the owner's next-ticket request goes on
\* with the ticket that follows by position (the first from Idle, none after
\* the last or without tickets) and with voting inactive; its UpdateSession
\* stores exactly that; and a request answered 303 has pushed exactly one
\* event, a ticket-changed carrying the ticket that is now current (none when
\* the session is Idle).
C37_AdvanceFollowsPositions ==
  /\ [][\A r \in ReqSlots :
          ( /\ req[r].op = "NextTicket" /\ NextTicket(r)
            /\ req[r].sess \in DOMAIN dbSessions
            /\ dbSessions[req[r].sess].owner = req[r].user )
          => /\ req'[r].pc = "run"
             /\ req'[r].session.cur = NextByPosition(req[r].sess)
             /\ Cardinality(req'[r].session.cur) <= 1
             /\ ~ req'[r].session.voting]_vars
  /\ [][\A r \in ReqSlots :
          (req[r].op = "NextTicket" /\ UpdateSession(r)) =>
            /\ dbSessions'[req[r].sess].cur = req[r].session.cur
            /\ ~ dbSessions'[req[r].sess].voting]_vars
  /\ [](\A r \in ReqSlots :
          (req[r].op = "NextTicket" /\ req[r].pc = "done" /\ req[r].status = 303) =>
            /\ Cardinality(EventsOf(r)) = 1
            /\ \A j \in EventsOf(r) :
                 /\ events[j].type = "ticket-changed"
                 /\ events[j].tid = IdOf(dbSessions[req[r].sess].cur))

\* The owner advanced past the last ticket of a session that has tickets:
\* the session is Idle and the event carries no ticket.
C37_Witness ==
  \E r \in ReqSlots :
    /\ req[r].op = "NextTicket" /\ req[r].pc = "done" /\ req[r].status = 303
    /\ Cardinality(TicketsOf(req[r].sess)) >= 2
    /\ dbSessions[req[r].sess].cur = {} /\ ~ dbSessions[req[r].sess].voting
    /\ \E j \in EventsOf(r) : events[j].tid = 0

\* ------------------------------------------------------- storage failures
\* A call of the session, ticket or voting service returns an error (the
\* statement fails; a transaction is rolled back): the handler answers 500
\* with http.Error and returns. The tables are as the call found them.
StorageError(r) ==
  /\ \/ req[r].pc \in {"tickets", "tvotes", "votes"}
     \/ req[r].pc = "get" /\ (req[r].op = "SubmitVote" => req[r].vote \in validVotes)
     \/ req[r].pc = "run" /\ req[r].todo # <<>>
          /\ Head(req[r].todo) \notin {"Broadcast", "Respond"}
  /\ Reply(r, 500)
  /\ UNCHANGED <<hubVars, connVars, db0, calls, dbSessions, dbTickets, dbVotes, ticketSeq,
                 nreq, events>>

\* The handlers with one request at a time, any storage call of which may
\* fail.
NextFault ==
  \/ ArrivalAlone(1)
  \/ GetSessionRow(1)
  \/ GetSessionTickets(1)
  \/ GetTicketVotes(1)
  \/ GetCurrentTicketVotes(1)
  \/ StartVoting(1)
  \/ EndVoting(1)
  \/ NextTicket(1)
  \/ SelectTicket(1)
  \/ CreateTicket(1)
  \/ DeleteTicket(1)
  \/ SubmitVote(1)
  \/ UpdateSession(1)
  \/ ClearVotesForTicket(1)
  \/ GetVotesForTicket(1)
  \/ GetTicketByID(1)
  \/ SvcCreateTicketMax(1)
  \/ SvcCreateTicketInsert(1)
  \/ SvcDeleteTicketGet(1)
  \/ SvcDeleteTicketTx(1)
  \/ SvcSubmitVote(1)
  \/ BroadcastEvent(1)
  \/ DeleteSession(1)
  \/ SvcDeleteSession(1)
  \/ ReviewSession(1)
  \/ Respond(1)
  \/ StorageError(1)

SpecFault == InitSession /\ [][NextFault]_vars

\* ---------------------------------------------------------------- C38
\* C38: an operation that reports a failure to its caller has changed nothing
\* in stored state; stated for the first call of a run, whose tables at
\* arrival are the initial ones: when it has been answered with a 5xx status,
\* sessions, tickets and votes are as they were.
C38_FailureChangesNothing ==
  \A r \in ReqSlots :
    (req[r].id = 1 /\ nreq = 1 /\ req[r].pc = "done" /\ req[r].status >= 500)
      => Tables = db0

\* ------------------------------------------------------- fair scheduling
\* Every goroutine that can take its next step takes it: the hub goroutine
\* its receive from ws.register, ws.unregister and ws.broadcast, a goroutine
\* inside a range the steps of its loop, and a handler waiting for the write
\* lock its RemoveClient. (The calls are finitely many, so a step that is
\* enabled again and again is in the end enabled for good.)
FairHub ==
  /\ \A c \in ConnPool : WF_vars(c \in ConnIds /\ WSRegisterReceive(c))
  /\ \A c \in ConnPool : WF_vars(c \in ConnIds /\ WSRegister(c))
  /\ \A c \in ConnPool : WF_vars(c \in ConnIds /\ WSUnregisterReceive(c))
  /\ \A c \in ConnPool : WF_vars(c \in ConnIds /\ WSUnregister(c))
  /\ \A c \in ConnPool : WF_vars(c \in ConnIds /\ SSEHandleExit(c))
  /\ \A g \in Callers : WF_vars(WSHubReceive(g))
  /\ \A i \in Iters : WF_vars(RangeNext(i))
  /\ \A i \in Iters : WF_vars(Select(i))
  /\ \A i \in Iters : WF_vars(RangeDone(i))

SpecHubFair == InitHub /\ [][NextHub]_vars /\ FairHub

\* ---------------------------------------------------------------- C39
\* The caller g is inside a Broadcast or SendToUser call; the connection c
\* is inside its register call, or inside its unregister call.
InCall(g) == it[g].pc # "idle"
InRegister(c) == c \in ConnIds /\ rp[c] = "wait"
InUnregister(c) == c \in ConnIds /\ rp[c] = "unreg"

\* C39: under fair scheduling every Broadcast, SendToUser, register and
\* unregister call that has begun returns.
C39_CallsReturn ==
  /\ \A g \in Callers : InCall(g) ~> ~ InCall(g)
  /\ \A c \in ConnPool : InRegister(c) ~> ~ InRegister(c)
  /\ \A c \in ConnPool : InUnregister(c) ~> ~ InUnregister(c)

\* ---------------------------------------------------------------- C40
\* C40: in every state the positions of the n tickets of a session are
\* exactly 1..n, each once.
C40_PositionsContiguous ==
  \A s \in Sessions :
    LET T == TicketsOf(s) IN
      /\ {dbTickets[t].pos : t \in T} = 1..Cardinality(T)
      /\ \A t, u \in T : dbTickets[t].pos = dbTickets[u].pos => t = u

====
